---- MODULE Spec2Model ----
(***************************************************************************)
(* PersonalAIOS component managers: the intent-extraction-and-dispatch     *)
(* pipeline (normalise text, scan an ordered regex table, run the handler) *)
(* of the file manager, application launcher, window manager, settings     *)
(* manager and workspace manager, with their JSON persistence.             *)
(*                                                                         *)
(* Text is modelled by TLA+ strings, on which TLC evaluates Len, \o,       *)
(* SubSeq, Head and Tail character by character.                           *)
(***************************************************************************)
EXTENDS Integers, Sequences, FiniteSets, TLC

(***************************************************************************)
(* Python str primitives                                                   *)
(***************************************************************************)
UpperAlpha == "ABCDEFGHIJKLMNOPQRSTUVWXYZ"
LowerAlpha == "abcdefghijklmnopqrstuvwxyz"
DigitChars == "0123456789"

CharsOf(s) == { SubSeq(s, k, k) : k \in 1..Len(s) }

UpperSet == CharsOf(UpperAlpha)
LowerSet == CharsOf(LowerAlpha)
DigitSet == CharsOf(DigitChars)
SpaceSet == { " ", "\t", "\n" }
WordSet  == UpperSet \cup LowerSet \cup DigitSet \cup { "_" }

LowerOf == [ c \in UpperSet |->
              LET k == CHOOSE j \in 1..26 : SubSeq(UpperAlpha, j, j) = c
              IN  SubSeq(LowerAlpha, k, k) ]

\* str.lower() on one character
LowerCh(c) == IF c \in UpperSet THEN LowerOf[c] ELSE c

\* str.lower()
RECURSIVE Lower(_)
Lower(s) == IF s = "" THEN "" ELSE LowerCh(Head(s)) \o Lower(Tail(s))

\* s[i:i+len(lit)] == lit
LitAt(s, i, lit) ==
    /\ i + Len(lit) - 1 <= Len(s)
    /\ SubSeq(s, i, i + Len(lit) - 1) = lit

\* sub in s
Contains(s, sub) == \E i \in 1..(Len(s) + 1) : LitAt(s, i, sub)

\* s.startswith(p)
StartsWith(s, p) == LitAt(s, 1, p)

\* str.lstrip(), str.rstrip(), str.strip()
RECURSIVE LStrip(_)
LStrip(s) == IF s # "" /\ Head(s) \in SpaceSet THEN LStrip(Tail(s)) ELSE s

RECURSIVE RStrip(_)
RStrip(s) == IF s # "" /\ SubSeq(s, Len(s), Len(s)) \in SpaceSet
             THEN RStrip(SubSeq(s, 1, Len(s) - 1)) ELSE s

Strip(s) == RStrip(LStrip(s))

\* str.replace(old, new), old non-empty
RECURSIVE StrReplace(_, _, _)
StrReplace(s, old, new) ==
    IF s = "" THEN ""
    ELSE IF LitAt(s, 1, old)
         THEN new \o StrReplace(SubSeq(s, Len(old) + 1, Len(s)), old, new)
         ELSE Head(s) \o StrReplace(Tail(s), old, new)

\* str.split(): the whitespace-separated words
RECURSIVE SplitWords(_)
SplitWords(s) ==
    LET t == LStrip(s)
        n == IF \E k \in 1..Len(t) : SubSeq(t, k, k) \in SpaceSet
             THEN (CHOOSE k \in 1..Len(t) :
                      /\ SubSeq(t, k, k) \in SpaceSet
                      /\ \A j \in 1..(k - 1) : SubSeq(t, j, j) \notin SpaceSet) - 1
             ELSE Len(t)
    IN  IF t = "" THEN << >>
        ELSE << SubSeq(t, 1, n) >> \o SplitWords(SubSeq(t, n + 1, Len(t)))

\* sep.join(words)
RECURSIVE Join(_, _)
Join(sep, words) ==
    IF words = << >> THEN ""
    ELSE IF Len(words) = 1 THEN words[1]
    ELSE words[1] \o sep \o Join(sep, Tail(words))

\* str.isdigit()
IsDigitStr(s) == s # "" /\ \A k \in 1..Len(s) : SubSeq(s, k, k) \in DigitSet

\* int(s) of a digit string
RECURSIVE DigitsToInt(_)
DigitsToInt(s) ==
    IF s = "" THEN 0
    ELSE LET last == SubSeq(s, Len(s), Len(s))
             d    == (CHOOSE k \in 1..10 : SubSeq(DigitChars, k, k) = last) - 1
         IN  10 * DigitsToInt(SubSeq(s, 1, Len(s) - 1)) + d

\* str(n) of a natural number
RECURSIVE NatToStr(_)
NatToStr(n) ==
    IF n < 10 THEN SubSeq(DigitChars, n + 1, n + 1)
    ELSE NatToStr(n \div 10) \o SubSeq(DigitChars, (n % 10) + 1, (n % 10) + 1)

\* str(n) of an integer
IntToStr(n) == IF n < 0 THEN "-" \o NatToStr(0 - n) ELSE NatToStr(n)

(***************************************************************************)
(* Python re: a backtracking matcher over the parsed pattern.  A pattern   *)
(* is a record tagged by t:                                                *)
(*   lit  s          a literal string                                      *)
(*   cls  c lo hi gr a repetition lo..hi (hi = -1: unbounded) of one       *)
(*                   character of class c, greedy (gr) or lazy             *)
(*   cat  rs         a concatenation                                       *)
(*   alt  rs         an alternation, tried left to right                   *)
(*   opt  r          (?:r)?, greedy                                        *)
(*   grp  r          a capturing group                                     *)
(*   bol, eol, wb    the anchors ^, $ and \b                               *)
(* A character class is a record [neg, lits, cats].  ReMatch yields the    *)
(* matches at a position in the order in which backtracking finds them,    *)
(* so that its head is the match re returns.  Each match is [e, g]: the    *)
(* position after the match and the captures, one [m, s] per group         *)
(* (m FALSE: the group did not take part, Python's None).  All matching is *)
(* under re.IGNORECASE unless ic is FALSE.                                 *)
(***************************************************************************)
NoCapture == [m |-> FALSE, s |-> ""]

Capture(str) == [m |-> TRUE, s |-> str]

InCategory(c, cat) ==
    CASE cat = "digit" -> c \in DigitSet
      [] cat = "space" -> c \in SpaceSet
      [] cat = "word"  -> c \in WordSet
      [] cat = "lower" -> c \in LowerSet
      [] cat = "upper" -> c \in UpperSet
      [] cat = "any"   -> c # "\n"
      [] OTHER         -> FALSE

\* the character d is one of the class, read as it is written
ClassHit(cl, d) ==
    \/ Contains(cl.lits, d)
    \/ \E cat \in cl.cats : InCategory(d, cat)

\* the character c or, ignoring case, its other case is one of the class
InClass(c, cl, ic) ==
    cl.neg # (\E d \in { c } \cup (IF ic THEN { LowerCh(c) } \cup { u \in UpperSet : LowerOf[u] = c }
                                     ELSE {}) : ClassHit(cl, d))

\* number of leading characters of s[i:] in the class, at most hi
RECURSIVE ClassRun(_, _, _, _, _)
ClassRun(s, i, cl, hi, ic) ==
    IF hi = 0 \/ i > Len(s) \/ ~InClass(SubSeq(s, i, i), cl, ic) THEN 0
    ELSE 1 + ClassRun(s, i + 1, cl, IF hi < 0 THEN hi ELSE hi - 1, ic)

RECURSIVE NGroups(_)
RECURSIVE NGroupsSeq(_)
NGroups(r) ==
    CASE r.t = "grp" -> 1 + NGroups(r.r)
      [] r.t = "opt" -> NGroups(r.r)
      [] r.t \in {"cat", "alt"} -> NGroupsSeq(r.rs)
      [] OTHER -> 0
NGroupsSeq(rs) == IF rs = << >> THEN 0 ELSE NGroups(Head(rs)) + NGroupsSeq(Tail(rs))

Nones(n) == [k \in 1..n |-> NoCapture]

IsWordAt(s, i) == i >= 1 /\ i <= Len(s) /\ SubSeq(s, i, i) \in WordSet

\* the match f of a pattern continued by the matches tail of what follows it
ReAfter(f, tail) == [k \in 1..Len(tail) |-> [e |-> tail[k].e, g |-> f.g \o tail[k].g]]

\* the matches ms of a branch, among the groups of the branches before and after
ReBranch(ms, before, after) ==
    [j \in 1..Len(ms) |-> [e |-> ms[j].e, g |-> Nones(before) \o ms[j].g \o Nones(after)]]

RECURSIVE ReMatch(_, _, _, _)
RECURSIVE ReCat(_, _, _, _)
RECURSIVE ReAlt(_, _, _, _, _, _)
RECURSIVE ReThen(_, _, _, _)
\* the matches of a repetition that can take n characters at i
ReRuns(r, i, n) ==
    IF n < r.lo THEN << >>
    ELSE [k \in 1..(n - r.lo + 1) |->
            [e |-> i + (IF r.gr THEN n - k + 1 ELSE r.lo + k - 1), g |-> << >>]]

\* the matches of a group whose pattern has the matches inner at i
ReGroup(inner, s, i) ==
    [k \in 1..Len(inner) |->
        [e |-> inner[k].e,
         g |-> << Capture(SubSeq(s, i, inner[k].e - 1)) >> \o inner[k].g]]

\* the strings are equal, under re.IGNORECASE when ic
SameText(a, b, ic) == IF ic THEN Lower(a) = Lower(b) ELSE a = b

ReMatch(r, s, i, ic) ==
    CASE r.t = "lit" ->
            IF /\ i + Len(r.s) - 1 <= Len(s)
               /\ SameText(SubSeq(s, i, i + Len(r.s) - 1), r.s, ic)
            THEN << [e |-> i + Len(r.s), g |-> << >>] >>
            ELSE << >>
      [] r.t = "cls" -> ReRuns(r, i, ClassRun(s, i, r.c, r.hi, ic))
      [] r.t = "grp" -> ReGroup(ReMatch(r.r, s, i, ic), s, i)
      [] r.t = "opt" ->
            ReMatch(r.r, s, i, ic) \o << [e |-> i, g |-> Nones(NGroups(r.r))] >>
      [] r.t = "cat" -> ReCat(r.rs, s, i, ic)
      [] r.t = "alt" -> ReAlt(r.rs, 1, NGroupsSeq(r.rs), s, i, ic)
      [] r.t = "bol" -> IF i = 1 THEN << [e |-> i, g |-> << >>] >> ELSE << >>
      [] r.t = "eol" -> IF i = Len(s) + 1 THEN << [e |-> i, g |-> << >>] >> ELSE << >>
      [] r.t = "wb"  -> IF IsWordAt(s, i - 1) # IsWordAt(s, i)
                        THEN << [e |-> i, g |-> << >>] >> ELSE << >>
\* the matches of rs[1] each continued by the matches of the rest
ReCat(rs, s, i, ic) ==
    IF rs = << >> THEN << [e |-> i, g |-> << >>] >>
    ELSE ReThen(ReMatch(Head(rs), s, i, ic), Tail(rs), s, ic)
ReThen(firsts, rest, s, ic) ==
    IF firsts = << >> THEN << >>
    ELSE ReAfter(Head(firsts), ReCat(rest, s, Head(firsts).e, ic))
         \o ReThen(Tail(firsts), rest, s, ic)
\* branch k of an alternation with total groups; before: groups of earlier branches
ReAlt(rs, k, total, s, i, ic) ==
    IF k > Len(rs) THEN << >>
    ELSE ReBranch(ReMatch(rs[k], s, i, ic), NGroupsSeq(SubSeq(rs, 1, k - 1)),
                  total - NGroupsSeq(SubSeq(rs, 1, k)))
         \o ReAlt(rs, k + 1, total, s, i, ic)

\* re.search(r, s): [found, b, e, g], the leftmost match and its captures
RECURSIVE ReSearchFrom(_, _, _, _)
RECURSIVE ReSearchAt(_, _, _, _, _)
ReSearchFrom(r, s, i, ic) ==
    IF i > Len(s) + 1 THEN [found |-> FALSE, b |-> 0, e |-> 0, g |-> << >>]
    ELSE ReSearchAt(ReMatch(r, s, i, ic), r, s, i, ic)
\* ms: the matches at i
ReSearchAt(ms, r, s, i, ic) ==
    IF ms # << >>
    THEN [found |-> TRUE, b |-> i, e |-> ms[1].e, g |-> ms[1].g]
    ELSE ReSearchFrom(r, s, i + 1, ic)

ReSearch(r, s, ic) == ReSearchFrom(r, s, 1, ic)

\* re.sub(r, repl, s): every non-overlapping leftmost match of the non-empty
\* pattern r replaced by repl
RECURSIVE ReSubFrom(_, _, _, _, _)
RECURSIVE ReSubAt(_, _, _, _, _, _)
ReSubFrom(r, repl, s, i, ic) ==
    IF i > Len(s) THEN ""
    ELSE ReSubAt(ReMatch(r, s, i, ic), r, repl, s, i, ic)
\* ms: the matches at i
ReSubAt(ms, r, repl, s, i, ic) ==
    IF ms # << >> /\ ms[1].e > i
    THEN repl \o ReSubFrom(r, repl, s, ms[1].e, ic)
    ELSE SubSeq(s, i, i) \o ReSubFrom(r, repl, s, i + 1, ic)

ReSub(r, repl, s, ic) == ReSubFrom(r, repl, s, 1, ic)

\* pattern constructors
RLit(str) == [t |-> "lit", s |-> str]
RCls(cl, lo, hi, greedy) == [t |-> "cls", c |-> cl, lo |-> lo, hi |-> hi, gr |-> greedy]
RCat(rs) == [t |-> "cat", rs |-> rs]
RAlt(rs) == [t |-> "alt", rs |-> rs]
ROpt(r) == [t |-> "opt", r |-> r]
RGrp(r) == [t |-> "grp", r |-> r]
RBol == [t |-> "bol"]
REol == [t |-> "eol"]
RWb == [t |-> "wb"]
Cls(neg, lits, cats) == [neg |-> neg, lits |-> lits, cats |-> cats]
AnyCh == Cls(FALSE, "", {"any"})
SpaceCh == Cls(FALSE, "", {"space"})
DigitCh == Cls(FALSE, "", {"digit"})
WordCh == Cls(FALSE, "", {"word"})

(***************************************************************************)
(* The intent matcher shared by the components: the tables are scanned in  *)
(* definition order, the first pattern that re.search finds wins.          *)
(***************************************************************************)
NoIntent == "None"

RECURSIVE FirstPatternMatch(_, _)
RECURSIVE FirstPatternAt(_, _, _)
FirstPatternMatch(patterns, text) ==
    IF patterns = << >> THEN [found |-> FALSE, b |-> 0, e |-> 0, g |-> << >>]
    ELSE FirstPatternAt(ReSearch(Head(patterns), text, TRUE), patterns, text)
\* m: the search of the first pattern
FirstPatternAt(m, patterns, text) ==
    IF m.found THEN m ELSE FirstPatternMatch(Tail(patterns), text)

RECURSIVE ScanTable(_, _)
RECURSIVE ScanTableAt(_, _, _)
ScanTable(table, text) ==
    IF table = << >> THEN [intent |-> NoIntent, groups |-> << >>]
    ELSE ScanTableAt(FirstPatternMatch(Head(table).patterns, text), table, text)
\* a matcher that lets a later-defined intent with a matching pattern win
LaterFirst(later, m, table) ==
    IF later.intent # NoIntent THEN later
    ELSE IF m.found THEN [intent |-> Head(table).intent, groups |-> m.g]
    ELSE [intent |-> NoIntent, groups |-> << >>]

ScanTableLatest(m, table, text) == LaterFirst(ScanTable(Tail(table), text), m, table)

\* m: the outcome of the patterns of the first intent
ScanTableAt(m, table, text) ==
    IF m.found THEN [intent |-> Head(table).intent, groups |-> m.g]
    ELSE ScanTable(Tail(table), text)

(***************************************************************************)
(* ai_file_manager.py                                                      *)
(***************************************************************************)
\* IntelligentFileManager.__init__: self.intent_patterns
fm_intent_patterns ==
    <<
      [intent |-> "create_file", patterns |-> <<
        \* r'create (?:a )?file (?:named |called )?(.+)'
        RCat(<<RLit("create "), ROpt(RLit("a ")), RLit("file "), ROpt(RAlt(<<RLit("named "), RLit("called ")>>)), RGrp(RCls(AnyCh, 1, -1, TRUE))>>),
        \* r'make (?:a )?file (?:named |called )?(.+)'
        RCat(<<RLit("make "), ROpt(RLit("a ")), RLit("file "), ROpt(RAlt(<<RLit("named "), RLit("called ")>>)), RGrp(RCls(AnyCh, 1, -1, TRUE))>>),
        \* r'new file (?:named |called )?(.+)'
        RCat(<<RLit("new file "), ROpt(RAlt(<<RLit("named "), RLit("called ")>>)), RGrp(RCls(AnyCh, 1, -1, TRUE))>>),
        \* r'touch (.+)'
        RCat(<<RLit("touch "), RGrp(RCls(AnyCh, 1, -1, TRUE))>>),
        \* r'create (.+\.[\w]+)'
        RCat(<<RLit("create "), RGrp(RCat(<<RCls(AnyCh, 1, -1, TRUE), RLit("."), RCls(WordCh, 1, -1, TRUE)>>))>>)
      >>],
      [intent |-> "create_directory", patterns |-> <<
        \* r'create (?:a )?(?:folder|directory) (?:named |called )?(.+)'
        RCat(<<RLit("create "), ROpt(RLit("a ")), RAlt(<<RLit("folder"), RLit("directory")>>), RLit(" "), ROpt(RAlt(<<RLit("named "), RLit("called ")>>)), RGrp(RCls(AnyCh, 1, -1, TRUE))>>),
        \* r'make (?:a )?(?:folder|directory) (?:named |called )?(.+)'
        RCat(<<RLit("make "), ROpt(RLit("a ")), RAlt(<<RLit("folder"), RLit("directory")>>), RLit(" "), ROpt(RAlt(<<RLit("named "), RLit("called ")>>)), RGrp(RCls(AnyCh, 1, -1, TRUE))>>),
        \* r'new (?:folder|directory) (?:named |called )?(.+)'
        RCat(<<RLit("new "), RAlt(<<RLit("folder"), RLit("directory")>>), RLit(" "), ROpt(RAlt(<<RLit("named "), RLit("called ")>>)), RGrp(RCls(AnyCh, 1, -1, TRUE))>>),
        \* r'mkdir (.+)'
        RCat(<<RLit("mkdir "), RGrp(RCls(AnyCh, 1, -1, TRUE))>>)
      >>],
      [intent |-> "find_file", patterns |-> <<
        \* r'find (?:a |the )?file (?:named |called )?(.+)'
        RCat(<<RLit("find "), ROpt(RAlt(<<RLit("a "), RLit("the ")>>)), RLit("file "), ROpt(RAlt(<<RLit("named "), RLit("called ")>>)), RGrp(RCls(AnyCh, 1, -1, TRUE))>>),
        \* r'search for (?:a |the )?file (?:named |called )?(.+)'
        RCat(<<RLit("search for "), ROpt(RAlt(<<RLit("a "), RLit("the ")>>)), RLit("file "), ROpt(RAlt(<<RLit("named "), RLit("called ")>>)), RGrp(RCls(AnyCh, 1, -1, TRUE))>>),
        \* r'locate (?:a |the )?file (?:named |called )?(.+)'
        RCat(<<RLit("locate "), ROpt(RAlt(<<RLit("a "), RLit("the ")>>)), RLit("file "), ROpt(RAlt(<<RLit("named "), RLit("called ")>>)), RGrp(RCls(AnyCh, 1, -1, TRUE))>>),
        \* r'where is (?:the )?file (?:named |called )?(.+)'
        RCat(<<RLit("where is "), ROpt(RLit("the ")), RLit("file "), ROpt(RAlt(<<RLit("named "), RLit("called ")>>)), RGrp(RCls(AnyCh, 1, -1, TRUE))>>),
        \* r'look for (.+)'
        RCat(<<RLit("look for "), RGrp(RCls(AnyCh, 1, -1, TRUE))>>),
        \* r'find (.+)'
        RCat(<<RLit("find "), RGrp(RCls(AnyCh, 1, -1, TRUE))>>)
      >>],
      [intent |-> "open_file", patterns |-> <<
        \* r'open (?:the )?file (?:named |called )?(.+)'
        RCat(<<RLit("open "), ROpt(RLit("the ")), RLit("file "), ROpt(RAlt(<<RLit("named "), RLit("called ")>>)), RGrp(RCls(AnyCh, 1, -1, TRUE))>>),
        \* r'launch (?:the )?file (?:named |called )?(.+)'
        RCat(<<RLit("launch "), ROpt(RLit("the ")), RLit("file "), ROpt(RAlt(<<RLit("named "), RLit("called ")>>)), RGrp(RCls(AnyCh, 1, -1, TRUE))>>),
        \* r'run (?:the )?file (?:named |called )?(.+)'
        RCat(<<RLit("run "), ROpt(RLit("the ")), RLit("file "), ROpt(RAlt(<<RLit("named "), RLit("called ")>>)), RGrp(RCls(AnyCh, 1, -1, TRUE))>>),
        \* r'open (.+)'
        RCat(<<RLit("open "), RGrp(RCls(AnyCh, 1, -1, TRUE))>>)
      >>],
      [intent |-> "delete_file", patterns |-> <<
        \* r'delete (?:the )?file (?:named |called )?(.+)'
        RCat(<<RLit("delete "), ROpt(RLit("the ")), RLit("file "), ROpt(RAlt(<<RLit("named "), RLit("called ")>>)), RGrp(RCls(AnyCh, 1, -1, TRUE))>>),
        \* r'remove (?:the )?file (?:named |called )?(.+)'
        RCat(<<RLit("remove "), ROpt(RLit("the ")), RLit("file "), ROpt(RAlt(<<RLit("named "), RLit("called ")>>)), RGrp(RCls(AnyCh, 1, -1, TRUE))>>),
        \* r'trash (?:the )?file (?:named |called )?(.+)'
        RCat(<<RLit("trash "), ROpt(RLit("the ")), RLit("file "), ROpt(RAlt(<<RLit("named "), RLit("called ")>>)), RGrp(RCls(AnyCh, 1, -1, TRUE))>>),
        \* r'delete (.+)'
        RCat(<<RLit("delete "), RGrp(RCls(AnyCh, 1, -1, TRUE))>>),
        \* r'rm (.+)'
        RCat(<<RLit("rm "), RGrp(RCls(AnyCh, 1, -1, TRUE))>>)
      >>],
      [intent |-> "list_files", patterns |-> <<
        \* r'list (?:all )?(?:the )?files'
        RCat(<<RLit("list "), ROpt(RLit("all ")), ROpt(RLit("the ")), RLit("files")>>),
        \* r'show (?:me )?(?:all )?(?:the )?files'
        RCat(<<RLit("show "), ROpt(RLit("me ")), ROpt(RLit("all ")), ROpt(RLit("the ")), RLit("files")>>),
        \* r'what files are (?:in )?here'
        RCat(<<RLit("what files are "), ROpt(RLit("in ")), RLit("here")>>),
        \* r'display (?:the )?contents'
        RCat(<<RLit("display "), ROpt(RLit("the ")), RLit("contents")>>),
        \* r'ls'
        RLit("ls"),
        \* r'dir'
        RLit("dir")
      >>],
      [intent |-> "copy_file", patterns |-> <<
        \* r'copy (?:the )?file (.+) to (.+)'
        RCat(<<RLit("copy "), ROpt(RLit("the ")), RLit("file "), RGrp(RCls(AnyCh, 1, -1, TRUE)), RLit(" to "), RGrp(RCls(AnyCh, 1, -1, TRUE))>>),
        \* r'duplicate (?:the )?file (.+) (?:to|as) (.+)'
        RCat(<<RLit("duplicate "), ROpt(RLit("the ")), RLit("file "), RGrp(RCls(AnyCh, 1, -1, TRUE)), RLit(" "), RAlt(<<RLit("to"), RLit("as")>>), RLit(" "), RGrp(RCls(AnyCh, 1, -1, TRUE))>>),
        \* r'cp (.+) (.+)'
        RCat(<<RLit("cp "), RGrp(RCls(AnyCh, 1, -1, TRUE)), RLit(" "), RGrp(RCls(AnyCh, 1, -1, TRUE))>>)
      >>],
      [intent |-> "move_file", patterns |-> <<
        \* r'move (?:the )?file (.+) to (.+)'
        RCat(<<RLit("move "), ROpt(RLit("the ")), RLit("file "), RGrp(RCls(AnyCh, 1, -1, TRUE)), RLit(" to "), RGrp(RCls(AnyCh, 1, -1, TRUE))>>),
        \* r'rename (?:the )?file (.+) (?:to|as) (.+)'
        RCat(<<RLit("rename "), ROpt(RLit("the ")), RLit("file "), RGrp(RCls(AnyCh, 1, -1, TRUE)), RLit(" "), RAlt(<<RLit("to"), RLit("as")>>), RLit(" "), RGrp(RCls(AnyCh, 1, -1, TRUE))>>),
        \* r'mv (.+) (.+)'
        RCat(<<RLit("mv "), RGrp(RCls(AnyCh, 1, -1, TRUE)), RLit(" "), RGrp(RCls(AnyCh, 1, -1, TRUE))>>)
      >>]
    >>

(***************************************************************************)
(* The pattern tables of the other components                              *)
(***************************************************************************)
\* IntelligentApplicationLauncher._initialize_dynamic_patterns: the generated base patterns
al_patterns ==
    <<
      [intent |-> "launch", patterns |-> <<
        \* r'(?:open|launch|start|run|execute)\s+(.+)'
        RCat(<<RAlt(<<RLit("open"), RLit("launch"), RLit("start"), RLit("run"), RLit("execute")>>), RCls(SpaceCh, 1, -1, TRUE), RGrp(RCls(AnyCh, 1, -1, TRUE))>>),
        \* r'(?:i\s+want\s+to\s+)?(?:use|open|start)\s+(.+)'
        RCat(<<ROpt(RCat(<<RLit("i"), RCls(SpaceCh, 1, -1, TRUE), RLit("want"), RCls(SpaceCh, 1, -1, TRUE), RLit("to"), RCls(SpaceCh, 1, -1, TRUE)>>)), RAlt(<<RLit("use"), RLit("open"), RLit("start")>>), RCls(SpaceCh, 1, -1, TRUE), RGrp(RCls(AnyCh, 1, -1, TRUE))>>),
        \* r'(.+?)(?:\s+please)?$'
        RCat(<<RGrp(RCls(AnyCh, 1, -1, FALSE)), ROpt(RCat(<<RCls(SpaceCh, 1, -1, TRUE), RLit("please")>>)), REol>>)
      >>],
      [intent |-> "search", patterns |-> <<
        \* r'(?:find|search|look\s+for|locate)\s+(?:an?\s+)?(?:app|application|program)\s+(?:for\s+)?(.+)'
        RCat(<<RAlt(<<RLit("find"), RLit("search"), RCat(<<RLit("look"), RCls(SpaceCh, 1, -1, TRUE), RLit("for")>>), RLit("locate")>>), RCls(SpaceCh, 1, -1, TRUE), ROpt(RCat(<<RLit("a"), ROpt(RLit("n")), RCls(SpaceCh, 1, -1, TRUE)>>)), RAlt(<<RLit("app"), RLit("application"), RLit("program")>>), RCls(SpaceCh, 1, -1, TRUE), ROpt(RCat(<<RLit("for"), RCls(SpaceCh, 1, -1, TRUE)>>)), RGrp(RCls(AnyCh, 1, -1, TRUE))>>),
        \* r'(?:what\s+)?(?:apps|applications|programs)\s+(?:do\s+i\s+have\s+)?(?:for\s+)?(.+)'
        RCat(<<ROpt(RCat(<<RLit("what"), RCls(SpaceCh, 1, -1, TRUE)>>)), RAlt(<<RLit("apps"), RLit("applications"), RLit("programs")>>), RCls(SpaceCh, 1, -1, TRUE), ROpt(RCat(<<RLit("do"), RCls(SpaceCh, 1, -1, TRUE), RLit("i"), RCls(SpaceCh, 1, -1, TRUE), RLit("have"), RCls(SpaceCh, 1, -1, TRUE)>>)), ROpt(RCat(<<RLit("for"), RCls(SpaceCh, 1, -1, TRUE)>>)), RGrp(RCls(AnyCh, 1, -1, TRUE))>>),
        \* r'(?:show\s+me\s+)?(?:apps|applications)\s+(?:that\s+)?(?:can\s+)?(.+)'
        RCat(<<ROpt(RCat(<<RLit("show"), RCls(SpaceCh, 1, -1, TRUE), RLit("me"), RCls(SpaceCh, 1, -1, TRUE)>>)), RLit("app"), RAlt(<<RLit("s"), RLit("lications")>>), RCls(SpaceCh, 1, -1, TRUE), ROpt(RCat(<<RLit("that"), RCls(SpaceCh, 1, -1, TRUE)>>)), ROpt(RCat(<<RLit("can"), RCls(SpaceCh, 1, -1, TRUE)>>)), RGrp(RCls(AnyCh, 1, -1, TRUE))>>)
      >>],
      [intent |-> "list", patterns |-> <<
        \* r'(?:list|show)\s+(?:all\s+)?(?:my\s+)?(?:apps|applications|programs)'
        RCat(<<RAlt(<<RLit("list"), RLit("show")>>), RCls(SpaceCh, 1, -1, TRUE), ROpt(RCat(<<RLit("all"), RCls(SpaceCh, 1, -1, TRUE)>>)), ROpt(RCat(<<RLit("my"), RCls(SpaceCh, 1, -1, TRUE)>>)), RAlt(<<RLit("apps"), RLit("applications"), RLit("programs")>>)>>),
        \* r'(?:what\s+)?(?:apps|applications|programs)\s+(?:do\s+i\s+have|are\s+installed)'
        RCat(<<ROpt(RCat(<<RLit("what"), RCls(SpaceCh, 1, -1, TRUE)>>)), RAlt(<<RLit("apps"), RLit("applications"), RLit("programs")>>), RCls(SpaceCh, 1, -1, TRUE), RAlt(<<RCat(<<RLit("do"), RCls(SpaceCh, 1, -1, TRUE), RLit("i"), RCls(SpaceCh, 1, -1, TRUE), RLit("have")>>), RCat(<<RLit("are"), RCls(SpaceCh, 1, -1, TRUE), RLit("installed")>>)>>)>>),
        \* r'(?:display|show\s+me)\s+(?:installed\s+)?(?:apps|applications)'
        RCat(<<RAlt(<<RLit("display"), RCat(<<RLit("show"), RCls(SpaceCh, 1, -1, TRUE), RLit("me")>>)>>), RCls(SpaceCh, 1, -1, TRUE), ROpt(RCat(<<RLit("installed"), RCls(SpaceCh, 1, -1, TRUE)>>)), RLit("app"), RAlt(<<RLit("s"), RLit("lications")>>)>>)
      >>]
    >>

\* IntelligentWindowManager.__init__: self.intent_patterns
wm_intent_patterns ==
    <<
      [intent |-> "maximize_window", patterns |-> <<
        \* r'maximize (?:the )?(?:window|app)(?:\s+(.+))?'
        RCat(<<RLit("maximize "), ROpt(RLit("the ")), RAlt(<<RLit("window"), RLit("app")>>), ROpt(RCat(<<RCls(SpaceCh, 1, -1, TRUE), RGrp(RCls(AnyCh, 1, -1, TRUE))>>))>>),
        \* r'make (?:the )?(?:window|app)(?:\s+(.+))?\s+(?:full\s*screen|fullscreen|bigger|maximum)'
        RCat(<<RLit("make "), ROpt(RLit("the ")), RAlt(<<RLit("window"), RLit("app")>>), ROpt(RCat(<<RCls(SpaceCh, 1, -1, TRUE), RGrp(RCls(AnyCh, 1, -1, TRUE))>>)), RCls(SpaceCh, 1, -1, TRUE), RAlt(<<RCat(<<RLit("full"), RCls(SpaceCh, 0, -1, TRUE), RLit("screen")>>), RLit("fullscreen"), RLit("bigger"), RLit("maximum")>>)>>),
        \* r'expand (?:the )?(?:window|app)(?:\s+(.+))?'
        RCat(<<RLit("expand "), ROpt(RLit("the ")), RAlt(<<RLit("window"), RLit("app")>>), ROpt(RCat(<<RCls(SpaceCh, 1, -1, TRUE), RGrp(RCls(AnyCh, 1, -1, TRUE))>>))>>),
        \* r'(?:window|app)(?:\s+(.+))?\s+to\s+(?:full\s*screen|maximum)'
        RCat(<<RAlt(<<RLit("window"), RLit("app")>>), ROpt(RCat(<<RCls(SpaceCh, 1, -1, TRUE), RGrp(RCls(AnyCh, 1, -1, TRUE))>>)), RCls(SpaceCh, 1, -1, TRUE), RLit("to"), RCls(SpaceCh, 1, -1, TRUE), RAlt(<<RCat(<<RLit("full"), RCls(SpaceCh, 0, -1, TRUE), RLit("screen")>>), RLit("maximum")>>)>>)
      >>],
      [intent |-> "minimize_window", patterns |-> <<
        \* r'minimize (?:the )?(?:window|app)(?:\s+(.+))?'
        RCat(<<RLit("minimize "), ROpt(RLit("the ")), RAlt(<<RLit("window"), RLit("app")>>), ROpt(RCat(<<RCls(SpaceCh, 1, -1, TRUE), RGrp(RCls(AnyCh, 1, -1, TRUE))>>))>>),
        \* r'hide (?:the )?(?:window|app)(?:\s+(.+))?'
        RCat(<<RLit("hide "), ROpt(RLit("the ")), RAlt(<<RLit("window"), RLit("app")>>), ROpt(RCat(<<RCls(SpaceCh, 1, -1, TRUE), RGrp(RCls(AnyCh, 1, -1, TRUE))>>))>>),
        \* r'shrink (?:the )?(?:window|app)(?:\s+(.+))?'
        RCat(<<RLit("shrink "), ROpt(RLit("the ")), RAlt(<<RLit("window"), RLit("app")>>), ROpt(RCat(<<RCls(SpaceCh, 1, -1, TRUE), RGrp(RCls(AnyCh, 1, -1, TRUE))>>))>>),
        \* r'put (?:the )?(?:window|app)(?:\s+(.+))?\s+(?:away|in\s+background)'
        RCat(<<RLit("put "), ROpt(RLit("the ")), RAlt(<<RLit("window"), RLit("app")>>), ROpt(RCat(<<RCls(SpaceCh, 1, -1, TRUE), RGrp(RCls(AnyCh, 1, -1, TRUE))>>)), RCls(SpaceCh, 1, -1, TRUE), RAlt(<<RLit("away"), RCat(<<RLit("in"), RCls(SpaceCh, 1, -1, TRUE), RLit("background")>>)>>)>>),
        \* r'(?:window|app)(?:\s+(.+))?\s+to\s+(?:taskbar|tray)'
        RCat(<<RAlt(<<RLit("window"), RLit("app")>>), ROpt(RCat(<<RCls(SpaceCh, 1, -1, TRUE), RGrp(RCls(AnyCh, 1, -1, TRUE))>>)), RCls(SpaceCh, 1, -1, TRUE), RLit("to"), RCls(SpaceCh, 1, -1, TRUE), RLit("t"), RAlt(<<RLit("askbar"), RLit("ray")>>)>>)
      >>],
      [intent |-> "close_window", patterns |-> <<
        \* r'close (?:the )?(?:window|app)(?:\s+(.+))?'
        RCat(<<RLit("close "), ROpt(RLit("the ")), RAlt(<<RLit("window"), RLit("app")>>), ROpt(RCat(<<RCls(SpaceCh, 1, -1, TRUE), RGrp(RCls(AnyCh, 1, -1, TRUE))>>))>>),
        \* r'quit (?:the )?(?:window|app)(?:\s+(.+))?'
        RCat(<<RLit("quit "), ROpt(RLit("the ")), RAlt(<<RLit("window"), RLit("app")>>), ROpt(RCat(<<RCls(SpaceCh, 1, -1, TRUE), RGrp(RCls(AnyCh, 1, -1, TRUE))>>))>>),
        \* r'exit (?:the )?(?:window|app)(?:\s+(.+))?'
        RCat(<<RLit("exit "), ROpt(RLit("the ")), RAlt(<<RLit("window"), RLit("app")>>), ROpt(RCat(<<RCls(SpaceCh, 1, -1, TRUE), RGrp(RCls(AnyCh, 1, -1, TRUE))>>))>>),
        \* r'kill (?:the )?(?:window|app)(?:\s+(.+))?'
        RCat(<<RLit("kill "), ROpt(RLit("the ")), RAlt(<<RLit("window"), RLit("app")>>), ROpt(RCat(<<RCls(SpaceCh, 1, -1, TRUE), RGrp(RCls(AnyCh, 1, -1, TRUE))>>))>>),
        \* r'shut\s*down (?:the )?(?:window|app)(?:\s+(.+))?'
        RCat(<<RLit("shut"), RCls(SpaceCh, 0, -1, TRUE), RLit("down "), ROpt(RLit("the ")), RAlt(<<RLit("window"), RLit("app")>>), ROpt(RCat(<<RCls(SpaceCh, 1, -1, TRUE), RGrp(RCls(AnyCh, 1, -1, TRUE))>>))>>)
      >>],
      [intent |-> "focus_window", patterns |-> <<
        \* r'focus (?:on )?(?:the )?(?:window|app)(?:\s+(.+))?'
        RCat(<<RLit("focus "), ROpt(RLit("on ")), ROpt(RLit("the ")), RAlt(<<RLit("window"), RLit("app")>>), ROpt(RCat(<<RCls(SpaceCh, 1, -1, TRUE), RGrp(RCls(AnyCh, 1, -1, TRUE))>>))>>),
        \* r'switch to (?:the )?(?:window|app)(?:\s+(.+))?'
        RCat(<<RLit("switch to "), ROpt(RLit("the ")), RAlt(<<RLit("window"), RLit("app")>>), ROpt(RCat(<<RCls(SpaceCh, 1, -1, TRUE), RGrp(RCls(AnyCh, 1, -1, TRUE))>>))>>),
        \* r'bring (?:the )?(?:window|app)(?:\s+(.+))?\s+(?:to\s+)?(?:front|forward)'
        RCat(<<RLit("bring "), ROpt(RLit("the ")), RAlt(<<RLit("window"), RLit("app")>>), ROpt(RCat(<<RCls(SpaceCh, 1, -1, TRUE), RGrp(RCls(AnyCh, 1, -1, TRUE))>>)), RCls(SpaceCh, 1, -1, TRUE), ROpt(RCat(<<RLit("to"), RCls(SpaceCh, 1, -1, TRUE)>>)), RLit("f"), RAlt(<<RLit("ront"), RLit("orward")>>)>>),
        \* r'show (?:me )?(?:the )?(?:window|app)(?:\s+(.+))?'
        RCat(<<RLit("show "), ROpt(RLit("me ")), ROpt(RLit("the ")), RAlt(<<RLit("window"), RLit("app")>>), ROpt(RCat(<<RCls(SpaceCh, 1, -1, TRUE), RGrp(RCls(AnyCh, 1, -1, TRUE))>>))>>),
        \* r'go to (?:the )?(?:window|app)(?:\s+(.+))?'
        RCat(<<RLit("go to "), ROpt(RLit("the ")), RAlt(<<RLit("window"), RLit("app")>>), ROpt(RCat(<<RCls(SpaceCh, 1, -1, TRUE), RGrp(RCls(AnyCh, 1, -1, TRUE))>>))>>)
      >>],
      [intent |-> "move_window", patterns |-> <<
        \* r'move (?:the )?(?:window|app)(?:\s+(.+))?\s+to\s+(.+)'
        RCat(<<RLit("move "), ROpt(RLit("the ")), RAlt(<<RLit("window"), RLit("app")>>), ROpt(RCat(<<RCls(SpaceCh, 1, -1, TRUE), RGrp(RCls(AnyCh, 1, -1, TRUE))>>)), RCls(SpaceCh, 1, -1, TRUE), RLit("to"), RCls(SpaceCh, 1, -1, TRUE), RGrp(RCls(AnyCh, 1, -1, TRUE))>>),
        \* r'put (?:the )?(?:window|app)(?:\s+(.+))?\s+(?:on|at)\s+(.+)'
        RCat(<<RLit("put "), ROpt(RLit("the ")), RAlt(<<RLit("window"), RLit("app")>>), ROpt(RCat(<<RCls(SpaceCh, 1, -1, TRUE), RGrp(RCls(AnyCh, 1, -1, TRUE))>>)), RCls(SpaceCh, 1, -1, TRUE), RAlt(<<RLit("on"), RLit("at")>>), RCls(SpaceCh, 1, -1, TRUE), RGrp(RCls(AnyCh, 1, -1, TRUE))>>),
        \* r'place (?:the )?(?:window|app)(?:\s+(.+))?\s+(?:on|at)\s+(.+)'
        RCat(<<RLit("place "), ROpt(RLit("the ")), RAlt(<<RLit("window"), RLit("app")>>), ROpt(RCat(<<RCls(SpaceCh, 1, -1, TRUE), RGrp(RCls(AnyCh, 1, -1, TRUE))>>)), RCls(SpaceCh, 1, -1, TRUE), RAlt(<<RLit("on"), RLit("at")>>), RCls(SpaceCh, 1, -1, TRUE), RGrp(RCls(AnyCh, 1, -1, TRUE))>>),
        \* r'position (?:the )?(?:window|app)(?:\s+(.+))?\s+(?:on|at)\s+(.+)'
        RCat(<<RLit("position "), ROpt(RLit("the ")), RAlt(<<RLit("window"), RLit("app")>>), ROpt(RCat(<<RCls(SpaceCh, 1, -1, TRUE), RGrp(RCls(AnyCh, 1, -1, TRUE))>>)), RCls(SpaceCh, 1, -1, TRUE), RAlt(<<RLit("on"), RLit("at")>>), RCls(SpaceCh, 1, -1, TRUE), RGrp(RCls(AnyCh, 1, -1, TRUE))>>)
      >>],
      [intent |-> "resize_window", patterns |-> <<
        \* r'resize (?:the )?(?:window|app)(?:\s+(.+))?\s+to\s+(.+)'
        RCat(<<RLit("resize "), ROpt(RLit("the ")), RAlt(<<RLit("window"), RLit("app")>>), ROpt(RCat(<<RCls(SpaceCh, 1, -1, TRUE), RGrp(RCls(AnyCh, 1, -1, TRUE))>>)), RCls(SpaceCh, 1, -1, TRUE), RLit("to"), RCls(SpaceCh, 1, -1, TRUE), RGrp(RCls(AnyCh, 1, -1, TRUE))>>),
        \* r'make (?:the )?(?:window|app)(?:\s+(.+))?\s+(.+)\s+(?:size|big|small)'
        RCat(<<RLit("make "), ROpt(RLit("the ")), RAlt(<<RLit("window"), RLit("app")>>), ROpt(RCat(<<RCls(SpaceCh, 1, -1, TRUE), RGrp(RCls(AnyCh, 1, -1, TRUE))>>)), RCls(SpaceCh, 1, -1, TRUE), RGrp(RCls(AnyCh, 1, -1, TRUE)), RCls(SpaceCh, 1, -1, TRUE), RAlt(<<RLit("size"), RLit("big"), RLit("small")>>)>>),
        \* r'change (?:the )?(?:window|app)(?:\s+(.+))?\s+size\s+to\s+(.+)'
        RCat(<<RLit("change "), ROpt(RLit("the ")), RAlt(<<RLit("window"), RLit("app")>>), ROpt(RCat(<<RCls(SpaceCh, 1, -1, TRUE), RGrp(RCls(AnyCh, 1, -1, TRUE))>>)), RCls(SpaceCh, 1, -1, TRUE), RLit("size"), RCls(SpaceCh, 1, -1, TRUE), RLit("to"), RCls(SpaceCh, 1, -1, TRUE), RGrp(RCls(AnyCh, 1, -1, TRUE))>>)
      >>],
      [intent |-> "tile_window", patterns |-> <<
        \* r'tile (?:the )?(?:window|app)(?:\s+(.+))?\s+(?:to\s+)?(?:the\s+)?(left|right|top|bottom)'
        RCat(<<RLit("tile "), ROpt(RLit("the ")), RAlt(<<RLit("window"), RLit("app")>>), ROpt(RCat(<<RCls(SpaceCh, 1, -1, TRUE), RGrp(RCls(AnyCh, 1, -1, TRUE))>>)), RCls(SpaceCh, 1, -1, TRUE), ROpt(RCat(<<RLit("to"), RCls(SpaceCh, 1, -1, TRUE)>>)), ROpt(RCat(<<RLit("the"), RCls(SpaceCh, 1, -1, TRUE)>>)), RGrp(RAlt(<<RLit("left"), RLit("right"), RLit("top"), RLit("bottom")>>))>>),
        \* r'snap (?:the )?(?:window|app)(?:\s+(.+))?\s+(?:to\s+)?(?:the\s+)?(left|right|top|bottom)'
        RCat(<<RLit("snap "), ROpt(RLit("the ")), RAlt(<<RLit("window"), RLit("app")>>), ROpt(RCat(<<RCls(SpaceCh, 1, -1, TRUE), RGrp(RCls(AnyCh, 1, -1, TRUE))>>)), RCls(SpaceCh, 1, -1, TRUE), ROpt(RCat(<<RLit("to"), RCls(SpaceCh, 1, -1, TRUE)>>)), ROpt(RCat(<<RLit("the"), RCls(SpaceCh, 1, -1, TRUE)>>)), RGrp(RAlt(<<RLit("left"), RLit("right"), RLit("top"), RLit("bottom")>>))>>),
        \* r'dock (?:the )?(?:window|app)(?:\s+(.+))?\s+(?:to\s+)?(?:the\s+)?(left|right|top|bottom)'
        RCat(<<RLit("dock "), ROpt(RLit("the ")), RAlt(<<RLit("window"), RLit("app")>>), ROpt(RCat(<<RCls(SpaceCh, 1, -1, TRUE), RGrp(RCls(AnyCh, 1, -1, TRUE))>>)), RCls(SpaceCh, 1, -1, TRUE), ROpt(RCat(<<RLit("to"), RCls(SpaceCh, 1, -1, TRUE)>>)), ROpt(RCat(<<RLit("the"), RCls(SpaceCh, 1, -1, TRUE)>>)), RGrp(RAlt(<<RLit("left"), RLit("right"), RLit("top"), RLit("bottom")>>))>>),
        \* r'(?:window|app)(?:\s+(.+))?\s+(?:to\s+)?(?:the\s+)?(left|right|top|bottom)\s+(?:side|half)'
        RCat(<<RAlt(<<RLit("window"), RLit("app")>>), ROpt(RCat(<<RCls(SpaceCh, 1, -1, TRUE), RGrp(RCls(AnyCh, 1, -1, TRUE))>>)), RCls(SpaceCh, 1, -1, TRUE), ROpt(RCat(<<RLit("to"), RCls(SpaceCh, 1, -1, TRUE)>>)), ROpt(RCat(<<RLit("the"), RCls(SpaceCh, 1, -1, TRUE)>>)), RGrp(RAlt(<<RLit("left"), RLit("right"), RLit("top"), RLit("bottom")>>)), RCls(SpaceCh, 1, -1, TRUE), RAlt(<<RLit("side"), RLit("half")>>)>>)
      >>],
      [intent |-> "workspace_action", patterns |-> <<
        \* r'move (?:the )?(?:window|app)(?:\s+(.+))?\s+to\s+workspace\s+(\d+|next|previous|left|right)'
        RCat(<<RLit("move "), ROpt(RLit("the ")), RAlt(<<RLit("window"), RLit("app")>>), ROpt(RCat(<<RCls(SpaceCh, 1, -1, TRUE), RGrp(RCls(AnyCh, 1, -1, TRUE))>>)), RCls(SpaceCh, 1, -1, TRUE), RLit("to"), RCls(SpaceCh, 1, -1, TRUE), RLit("workspace"), RCls(SpaceCh, 1, -1, TRUE), RGrp(RAlt(<<RCls(DigitCh, 1, -1, TRUE), RLit("next"), RLit("previous"), RLit("left"), RLit("right")>>))>>),
        \* r'send (?:the )?(?:window|app)(?:\s+(.+))?\s+to\s+workspace\s+(\d+|next|previous|left|right)'
        RCat(<<RLit("send "), ROpt(RLit("the ")), RAlt(<<RLit("window"), RLit("app")>>), ROpt(RCat(<<RCls(SpaceCh, 1, -1, TRUE), RGrp(RCls(AnyCh, 1, -1, TRUE))>>)), RCls(SpaceCh, 1, -1, TRUE), RLit("to"), RCls(SpaceCh, 1, -1, TRUE), RLit("workspace"), RCls(SpaceCh, 1, -1, TRUE), RGrp(RAlt(<<RCls(DigitCh, 1, -1, TRUE), RLit("next"), RLit("previous"), RLit("left"), RLit("right")>>))>>),
        \* r'switch\s+to\s+workspace\s+(\d+|next|previous|left|right)'
        RCat(<<RLit("switch"), RCls(SpaceCh, 1, -1, TRUE), RLit("to"), RCls(SpaceCh, 1, -1, TRUE), RLit("workspace"), RCls(SpaceCh, 1, -1, TRUE), RGrp(RAlt(<<RCls(DigitCh, 1, -1, TRUE), RLit("next"), RLit("previous"), RLit("left"), RLit("right")>>))>>),
        \* r'go\s+to\s+workspace\s+(\d+|next|previous|left|right)'
        RCat(<<RLit("go"), RCls(SpaceCh, 1, -1, TRUE), RLit("to"), RCls(SpaceCh, 1, -1, TRUE), RLit("workspace"), RCls(SpaceCh, 1, -1, TRUE), RGrp(RAlt(<<RCls(DigitCh, 1, -1, TRUE), RLit("next"), RLit("previous"), RLit("left"), RLit("right")>>))>>)
      >>],
      [intent |-> "window_properties", patterns |-> <<
        \* r'make (?:the )?(?:window|app)(?:\s+(.+))?\s+(?:always\s+on\s+top|stick|sticky)'
        RCat(<<RLit("make "), ROpt(RLit("the ")), RAlt(<<RLit("window"), RLit("app")>>), ROpt(RCat(<<RCls(SpaceCh, 1, -1, TRUE), RGrp(RCls(AnyCh, 1, -1, TRUE))>>)), RCls(SpaceCh, 1, -1, TRUE), RAlt(<<RCat(<<RLit("always"), RCls(SpaceCh, 1, -1, TRUE), RLit("on"), RCls(SpaceCh, 1, -1, TRUE), RLit("top")>>), RLit("stick"), RLit("sticky")>>)>>),
        \* r'keep (?:the )?(?:window|app)(?:\s+(.+))?\s+(?:on\s+top|visible)'
        RCat(<<RLit("keep "), ROpt(RLit("the ")), RAlt(<<RLit("window"), RLit("app")>>), ROpt(RCat(<<RCls(SpaceCh, 1, -1, TRUE), RGrp(RCls(AnyCh, 1, -1, TRUE))>>)), RCls(SpaceCh, 1, -1, TRUE), RAlt(<<RCat(<<RLit("on"), RCls(SpaceCh, 1, -1, TRUE), RLit("top")>>), RLit("visible")>>)>>),
        \* r'pin (?:the )?(?:window|app)(?:\s+(.+))?'
        RCat(<<RLit("pin "), ROpt(RLit("the ")), RAlt(<<RLit("window"), RLit("app")>>), ROpt(RCat(<<RCls(SpaceCh, 1, -1, TRUE), RGrp(RCls(AnyCh, 1, -1, TRUE))>>))>>)
      >>],
      [intent |-> "list_windows", patterns |-> <<
        \* r'list (?:all )?(?:open )?(?:windows|apps)'
        RCat(<<RLit("list "), ROpt(RLit("all ")), ROpt(RLit("open ")), RAlt(<<RLit("windows"), RLit("apps")>>)>>),
        \* r'show (?:me )?(?:all )?(?:open )?(?:windows|apps)'
        RCat(<<RLit("show "), ROpt(RLit("me ")), ROpt(RLit("all ")), ROpt(RLit("open ")), RAlt(<<RLit("windows"), RLit("apps")>>)>>),
        \* r'what (?:windows|apps)\s+are\s+(?:open|running)'
        RCat(<<RLit("what "), RAlt(<<RLit("windows"), RLit("apps")>>), RCls(SpaceCh, 1, -1, TRUE), RLit("are"), RCls(SpaceCh, 1, -1, TRUE), RAlt(<<RLit("open"), RLit("running")>>)>>),
        \* r'display (?:all )?(?:open )?(?:windows|apps)'
        RCat(<<RLit("display "), ROpt(RLit("all ")), ROpt(RLit("open ")), RAlt(<<RLit("windows"), RLit("apps")>>)>>)
      >>],
      [intent |-> "window_info", patterns |-> <<
        \* r'(?:info|information|details)\s+(?:about\s+)?(?:the )?(?:window|app)(?:\s+(.+))?'
        RCat(<<RAlt(<<RLit("info"), RLit("information"), RLit("details")>>), RCls(SpaceCh, 1, -1, TRUE), ROpt(RCat(<<RLit("about"), RCls(SpaceCh, 1, -1, TRUE)>>)), ROpt(RLit("the ")), RAlt(<<RLit("window"), RLit("app")>>), ROpt(RCat(<<RCls(SpaceCh, 1, -1, TRUE), RGrp(RCls(AnyCh, 1, -1, TRUE))>>))>>),
        \* r'what\s+is\s+(?:the )?(?:window|app)(?:\s+(.+))?'
        RCat(<<RLit("what"), RCls(SpaceCh, 1, -1, TRUE), RLit("is"), RCls(SpaceCh, 1, -1, TRUE), ROpt(RLit("the ")), RAlt(<<RLit("window"), RLit("app")>>), ROpt(RCat(<<RCls(SpaceCh, 1, -1, TRUE), RGrp(RCls(AnyCh, 1, -1, TRUE))>>))>>),
        \* r'describe (?:the )?(?:window|app)(?:\s+(.+))?'
        RCat(<<RLit("describe "), ROpt(RLit("the ")), RAlt(<<RLit("window"), RLit("app")>>), ROpt(RCat(<<RCls(SpaceCh, 1, -1, TRUE), RGrp(RCls(AnyCh, 1, -1, TRUE))>>))>>),
        \* r'tell\s+me\s+about\s+(?:the )?(?:window|app)(?:\s+(.+))?'
        RCat(<<RLit("tell"), RCls(SpaceCh, 1, -1, TRUE), RLit("me"), RCls(SpaceCh, 1, -1, TRUE), RLit("about"), RCls(SpaceCh, 1, -1, TRUE), ROpt(RLit("the ")), RAlt(<<RLit("window"), RLit("app")>>), ROpt(RCat(<<RCls(SpaceCh, 1, -1, TRUE), RGrp(RCls(AnyCh, 1, -1, TRUE))>>))>>)
      >>]
    >>

\* IntelligentSettingsManager.__init__: self.intent_patterns
st_intent_patterns ==
    <<
      [intent |-> "get_setting", patterns |-> <<
        \* r'(?:what is|show|get) (?:the )?(?:current )?(.+?) (?:setting|value|preference)'
        RCat(<<RAlt(<<RLit("what is"), RLit("show"), RLit("get")>>), RLit(" "), ROpt(RLit("the ")), ROpt(RLit("current ")), RGrp(RCls(AnyCh, 1, -1, FALSE)), RLit(" "), RAlt(<<RLit("setting"), RLit("value"), RLit("preference")>>)>>),
        \* r'(?:current|show me) (.+?) (?:setting|value)'
        RCat(<<RAlt(<<RLit("current"), RLit("show me")>>), RLit(" "), RGrp(RCls(AnyCh, 1, -1, FALSE)), RLit(" "), RAlt(<<RLit("setting"), RLit("value")>>)>>),
        \* r'(?:value of|check) (.+?) (?:setting|preference)'
        RCat(<<RAlt(<<RLit("value of"), RLit("check")>>), RLit(" "), RGrp(RCls(AnyCh, 1, -1, FALSE)), RLit(" "), RAlt(<<RLit("setting"), RLit("preference")>>)>>),
        \* r'(.+?) (?:setting|preference|value)'
        RCat(<<RGrp(RCls(AnyCh, 1, -1, FALSE)), RLit(" "), RAlt(<<RLit("setting"), RLit("preference"), RLit("value")>>)>>)
      >>],
      [intent |-> "set_setting", patterns |-> <<
        \* r'(?:set|change) (?:the )?(.+?) (?:to|as) (.+)'
        RCat(<<RAlt(<<RLit("set"), RLit("change")>>), RLit(" "), ROpt(RLit("the ")), RGrp(RCls(AnyCh, 1, -1, FALSE)), RLit(" "), RAlt(<<RLit("to"), RLit("as")>>), RLit(" "), RGrp(RCls(AnyCh, 1, -1, TRUE))>>),
        \* r'(?:make|configure) (?:the )?(.+?) (?:to be|as) (.+)'
        RCat(<<RAlt(<<RLit("make"), RLit("configure")>>), RLit(" "), ROpt(RLit("the ")), RGrp(RCls(AnyCh, 1, -1, FALSE)), RLit(" "), RAlt(<<RLit("to be"), RLit("as")>>), RLit(" "), RGrp(RCls(AnyCh, 1, -1, TRUE))>>),
        \* r'(?:update|modify) (?:the )?(.+?) (?:setting|value) (?:to|as) (.+)'
        RCat(<<RAlt(<<RLit("update"), RLit("modify")>>), RLit(" "), ROpt(RLit("the ")), RGrp(RCls(AnyCh, 1, -1, FALSE)), RLit(" "), RAlt(<<RLit("setting"), RLit("value")>>), RLit(" "), RAlt(<<RLit("to"), RLit("as")>>), RLit(" "), RGrp(RCls(AnyCh, 1, -1, TRUE))>>),
        \* r'(.+?) (?:should be|to) (.+)'
        RCat(<<RGrp(RCls(AnyCh, 1, -1, FALSE)), RLit(" "), RAlt(<<RLit("should be"), RLit("to")>>), RLit(" "), RGrp(RCls(AnyCh, 1, -1, TRUE))>>)
      >>],
      [intent |-> "reset_setting", patterns |-> <<
        \* r'(?:reset|restore) (?:the )?(.+?) (?:setting|preference|value)'
        RCat(<<RLit("res"), RAlt(<<RLit("et"), RLit("tore")>>), RLit(" "), ROpt(RLit("the ")), RGrp(RCls(AnyCh, 1, -1, FALSE)), RLit(" "), RAlt(<<RLit("setting"), RLit("preference"), RLit("value")>>)>>),
        \* r'(?:default|original) (?:value for |setting for )?(.+)'
        RCat(<<RAlt(<<RLit("default"), RLit("original")>>), RLit(" "), ROpt(RAlt(<<RLit("value for "), RLit("setting for ")>>)), RGrp(RCls(AnyCh, 1, -1, TRUE))>>),
        \* r'(?:set|change) (.+?) (?:back to|to) (?:default|original)'
        RCat(<<RAlt(<<RLit("set"), RLit("change")>>), RLit(" "), RGrp(RCls(AnyCh, 1, -1, FALSE)), RLit(" "), RAlt(<<RLit("back to"), RLit("to")>>), RLit(" "), RAlt(<<RLit("default"), RLit("original")>>)>>)
      >>],
      [intent |-> "list_settings", patterns |-> <<
        \* r'(?:list|show) (?:all )?(?:the )?(.+?) settings'
        RCat(<<RAlt(<<RLit("list"), RLit("show")>>), RLit(" "), ROpt(RLit("all ")), ROpt(RLit("the ")), RGrp(RCls(AnyCh, 1, -1, FALSE)), RLit(" settings")>>),
        \* r'(?:what|which) (.+?) settings (?:are there|exist|available)'
        RCat(<<RLit("wh"), RAlt(<<RLit("at"), RLit("ich")>>), RLit(" "), RGrp(RCls(AnyCh, 1, -1, FALSE)), RLit(" settings "), RAlt(<<RLit("are there"), RLit("exist"), RLit("available")>>)>>),
        \* r'(?:settings for|configure) (.+?)'
        RCat(<<RAlt(<<RLit("settings for"), RLit("configure")>>), RLit(" "), RGrp(RCls(AnyCh, 1, -1, FALSE))>>),
        \* r'(.+?) (?:configuration|preferences|options)'
        RCat(<<RGrp(RCls(AnyCh, 1, -1, FALSE)), RLit(" "), RAlt(<<RLit("configuration"), RLit("preferences"), RLit("options")>>)>>)
      >>],
      [intent |-> "search_settings", patterns |-> <<
        \* r'(?:find|search|locate) (?:settings (?:for|about) )?(.+)'
        RCat(<<RAlt(<<RLit("find"), RLit("search"), RLit("locate")>>), RLit(" "), ROpt(RCat(<<RLit("settings "), RAlt(<<RLit("for"), RLit("about")>>), RLit(" ")>>)), RGrp(RCls(AnyCh, 1, -1, TRUE))>>),
        \* r'(?:settings|options) (?:related to|about|for) (.+)'
        RCat(<<RAlt(<<RLit("settings"), RLit("options")>>), RLit(" "), RAlt(<<RLit("related to"), RLit("about"), RLit("for")>>), RLit(" "), RGrp(RCls(AnyCh, 1, -1, TRUE))>>),
        \* r'(?:how to (?:change|configure|set)) (.+)'
        RCat(<<RLit("how to "), RAlt(<<RLit("change"), RLit("configure"), RLit("set")>>), RLit(" "), RGrp(RCls(AnyCh, 1, -1, TRUE))>>)
      >>],
      [intent |-> "backup_settings", patterns |-> <<
        \* r'(?:backup|save|export) (?:all )?(?:my )?settings'
        RCat(<<RAlt(<<RLit("backup"), RLit("save"), RLit("export")>>), RLit(" "), ROpt(RLit("all ")), ROpt(RLit("my ")), RLit("settings")>>),
        \* r'(?:create|make) (?:a )?(?:backup|copy) of (?:my )?settings'
        RCat(<<RAlt(<<RLit("create"), RLit("make")>>), RLit(" "), ROpt(RLit("a ")), RAlt(<<RLit("backup"), RLit("copy")>>), RLit(" of "), ROpt(RLit("my ")), RLit("settings")>>),
        \* r'(?:save|store) (?:current )?configuration'
        RCat(<<RLit("s"), RAlt(<<RLit("ave"), RLit("tore")>>), RLit(" "), ROpt(RLit("current ")), RLit("configuration")>>)
      >>],
      [intent |-> "restore_settings", patterns |-> <<
        \* r'(?:restore|load|import) (?:settings|configuration|backup)'
        RCat(<<RAlt(<<RLit("restore"), RLit("load"), RLit("import")>>), RLit(" "), RAlt(<<RLit("settings"), RLit("configuration"), RLit("backup")>>)>>),
        \* r'(?:revert to|go back to) (?:previous|saved|backup) settings'
        RCat(<<RAlt(<<RLit("revert to"), RLit("go back to")>>), RLit(" "), RAlt(<<RLit("previous"), RLit("saved"), RLit("backup")>>), RLit(" settings")>>),
        \* r'(?:undo|rollback) (?:settings )?changes'
        RCat(<<RAlt(<<RLit("undo"), RLit("rollback")>>), RLit(" "), ROpt(RLit("settings ")), RLit("changes")>>)
      >>],
      [intent |-> "category_settings", patterns |-> <<
        \* r'(?:show|list|display) (.+?) category settings'
        RCat(<<RAlt(<<RLit("show"), RLit("list"), RLit("display")>>), RLit(" "), RGrp(RCls(AnyCh, 1, -1, FALSE)), RLit(" category settings")>>),
        \* r'(?:all )?(.+?) (?:settings|preferences|options)'
        RCat(<<ROpt(RLit("all ")), RGrp(RCls(AnyCh, 1, -1, FALSE)), RLit(" "), RAlt(<<RLit("settings"), RLit("preferences"), RLit("options")>>)>>),
        \* r'(?:configure|modify) (.+?) (?:settings|preferences)'
        RCat(<<RAlt(<<RLit("configure"), RLit("modify")>>), RLit(" "), RGrp(RCls(AnyCh, 1, -1, FALSE)), RLit(" "), RAlt(<<RLit("settings"), RLit("preferences")>>)>>)
      >>],
      [intent |-> "setting_info", patterns |-> <<
        \* r'(?:info|information|details|help) (?:about|for) (.+?) (?:setting|preference)'
        RCat(<<RAlt(<<RLit("info"), RLit("information"), RLit("details"), RLit("help")>>), RLit(" "), RAlt(<<RLit("about"), RLit("for")>>), RLit(" "), RGrp(RCls(AnyCh, 1, -1, FALSE)), RLit(" "), RAlt(<<RLit("setting"), RLit("preference")>>)>>),
        \* r'(?:what does|explain) (.+?) (?:setting|preference|option)'
        RCat(<<RAlt(<<RLit("what does"), RLit("explain")>>), RLit(" "), RGrp(RCls(AnyCh, 1, -1, FALSE)), RLit(" "), RAlt(<<RLit("setting"), RLit("preference"), RLit("option")>>)>>),
        \* r'(?:help with|describe) (.+?) (?:setting|preference)'
        RCat(<<RAlt(<<RLit("help with"), RLit("describe")>>), RLit(" "), RGrp(RCls(AnyCh, 1, -1, FALSE)), RLit(" "), RAlt(<<RLit("setting"), RLit("preference")>>)>>)
      >>],
      [intent |-> "apply_profile", patterns |-> <<
        \* r'(?:apply|use|load) (.+?) (?:profile|preset|template)'
        RCat(<<RAlt(<<RLit("apply"), RLit("use"), RLit("load")>>), RLit(" "), RGrp(RCls(AnyCh, 1, -1, FALSE)), RLit(" "), RAlt(<<RLit("profile"), RLit("preset"), RLit("template")>>)>>),
        \* r'(?:set|configure) (?:system )?(?:as|to) (.+?) (?:profile|mode)'
        RCat(<<RAlt(<<RLit("set"), RLit("configure")>>), RLit(" "), ROpt(RLit("system ")), RAlt(<<RLit("as"), RLit("to")>>), RLit(" "), RGrp(RCls(AnyCh, 1, -1, FALSE)), RLit(" "), RAlt(<<RLit("profile"), RLit("mode")>>)>>),
        \* r'(?:switch to|enable) (.+?) (?:profile|mode|preset)'
        RCat(<<RAlt(<<RLit("switch to"), RLit("enable")>>), RLit(" "), RGrp(RCls(AnyCh, 1, -1, FALSE)), RLit(" "), RAlt(<<RLit("profile"), RLit("mode"), RLit("preset")>>)>>)
      >>]
    >>

\* IntelligentWorkspaceManager.__init__: self.intent_patterns
ws_intent_patterns ==
    <<
      [intent |-> "create_workspace", patterns |-> <<
        \* r'create (?:a )?(?:new )?workspace (?:called |named |for )?(.+)'
        RCat(<<RLit("create "), ROpt(RLit("a ")), ROpt(RLit("new ")), RLit("workspace "), ROpt(RAlt(<<RLit("called "), RLit("named "), RLit("for ")>>)), RGrp(RCls(AnyCh, 1, -1, TRUE))>>),
        \* r'make (?:a )?(?:new )?workspace (?:called |named |for )?(.+)'
        RCat(<<RLit("make "), ROpt(RLit("a ")), ROpt(RLit("new ")), RLit("workspace "), ROpt(RAlt(<<RLit("called "), RLit("named "), RLit("for ")>>)), RGrp(RCls(AnyCh, 1, -1, TRUE))>>),
        \* r'add (?:a )?(?:new )?workspace (?:called |named |for )?(.+)'
        RCat(<<RLit("add "), ROpt(RLit("a ")), ROpt(RLit("new ")), RLit("workspace "), ROpt(RAlt(<<RLit("called "), RLit("named "), RLit("for ")>>)), RGrp(RCls(AnyCh, 1, -1, TRUE))>>),
        \* r'new workspace (?:for )?(.+)'
        RCat(<<RLit("new workspace "), ROpt(RLit("for ")), RGrp(RCls(AnyCh, 1, -1, TRUE))>>),
        \* r'(?:i )?(?:need|want) (?:a )?workspace (?:for )?(.+)'
        RCat(<<ROpt(RLit("i ")), RAlt(<<RLit("need"), RLit("want")>>), RLit(" "), ROpt(RLit("a ")), RLit("workspace "), ROpt(RLit("for ")), RGrp(RCls(AnyCh, 1, -1, TRUE))>>)
      >>],
      [intent |-> "switch_workspace", patterns |-> <<
        \* r'(?:switch|go|move|jump) to workspace (\d+|next|previous|last|first)'
        RCat(<<RAlt(<<RLit("switch"), RLit("go"), RLit("move"), RLit("jump")>>), RLit(" to workspace "), RGrp(RAlt(<<RCls(DigitCh, 1, -1, TRUE), RLit("next"), RLit("previous"), RLit("last"), RLit("first")>>))>>),
        \* r'(?:change to|use) workspace (\d+|next|previous|last|first)'
        RCat(<<RAlt(<<RLit("change to"), RLit("use")>>), RLit(" workspace "), RGrp(RAlt(<<RCls(DigitCh, 1, -1, TRUE), RLit("next"), RLit("previous"), RLit("last"), RLit("first")>>))>>),
        \* r'workspace (\d+|next|previous|last|first)'
        RCat(<<RLit("workspace "), RGrp(RAlt(<<RCls(DigitCh, 1, -1, TRUE), RLit("next"), RLit("previous"), RLit("last"), RLit("first")>>))>>),
        \* r'(?:switch|go) to (.+) workspace'
        RCat(<<RAlt(<<RLit("switch"), RLit("go")>>), RLit(" to "), RGrp(RCls(AnyCh, 1, -1, TRUE)), RLit(" workspace")>>),
        \* r'(?:open|show) (.+) workspace'
        RCat(<<RAlt(<<RLit("open"), RLit("show")>>), RLit(" "), RGrp(RCls(AnyCh, 1, -1, TRUE)), RLit(" workspace")>>)
      >>],
      [intent |-> "list_workspaces", patterns |-> <<
        \* r'(?:list|show) (?:all )?(?:my )?workspaces'
        RCat(<<RAlt(<<RLit("list"), RLit("show")>>), RLit(" "), ROpt(RLit("all ")), ROpt(RLit("my ")), RLit("workspaces")>>),
        \* r'(?:what|which) workspaces (?:do i have|are there|exist)'
        RCat(<<RLit("wh"), RAlt(<<RLit("at"), RLit("ich")>>), RLit(" workspaces "), RAlt(<<RLit("do i have"), RLit("are there"), RLit("exist")>>)>>),
        \* r'(?:display|show me) (?:all )?workspaces'
        RCat(<<RAlt(<<RLit("display"), RLit("show me")>>), RLit(" "), ROpt(RLit("all ")), RLit("workspaces")>>),
        \* r'workspace (?:overview|summary|list)'
        RCat(<<RLit("workspace "), RAlt(<<RLit("overview"), RLit("summary"), RLit("list")>>)>>)
      >>],
      [intent |-> "rename_workspace", patterns |-> <<
        \* r'rename workspace (\d+|current|this) (?:to )?(.+)'
        RCat(<<RLit("rename workspace "), RGrp(RAlt(<<RCls(DigitCh, 1, -1, TRUE), RLit("current"), RLit("this")>>)), RLit(" "), ROpt(RLit("to ")), RGrp(RCls(AnyCh, 1, -1, TRUE))>>),
        \* r'call workspace (\d+|current|this) (.+)'
        RCat(<<RLit("call workspace "), RGrp(RAlt(<<RCls(DigitCh, 1, -1, TRUE), RLit("current"), RLit("this")>>)), RLit(" "), RGrp(RCls(AnyCh, 1, -1, TRUE))>>),
        \* r'(?:change|set) workspace (\d+|current|this) name (?:to )?(.+)'
        RCat(<<RAlt(<<RLit("change"), RLit("set")>>), RLit(" workspace "), RGrp(RAlt(<<RCls(DigitCh, 1, -1, TRUE), RLit("current"), RLit("this")>>)), RLit(" name "), ROpt(RLit("to ")), RGrp(RCls(AnyCh, 1, -1, TRUE))>>),
        \* r'workspace (\d+|current|this) (?:should be )?(?:called |named )?(.+)'
        RCat(<<RLit("workspace "), RGrp(RAlt(<<RCls(DigitCh, 1, -1, TRUE), RLit("current"), RLit("this")>>)), RLit(" "), ROpt(RLit("should be ")), ROpt(RAlt(<<RLit("called "), RLit("named ")>>)), RGrp(RCls(AnyCh, 1, -1, TRUE))>>)
      >>],
      [intent |-> "delete_workspace", patterns |-> <<
        \* r'(?:delete|remove|close) workspace (\d+|current|last)'
        RCat(<<RAlt(<<RLit("delete"), RLit("remove"), RLit("close")>>), RLit(" workspace "), RGrp(RAlt(<<RCls(DigitCh, 1, -1, TRUE), RLit("current"), RLit("last")>>))>>),
        \* r'(?:destroy|kill) workspace (\d+|current|last)'
        RCat(<<RAlt(<<RLit("destroy"), RLit("kill")>>), RLit(" workspace "), RGrp(RAlt(<<RCls(DigitCh, 1, -1, TRUE), RLit("current"), RLit("last")>>))>>),
        \* r'(?:get rid of|eliminate) workspace (\d+|current|last)'
        RCat(<<RAlt(<<RLit("get rid of"), RLit("eliminate")>>), RLit(" workspace "), RGrp(RAlt(<<RCls(DigitCh, 1, -1, TRUE), RLit("current"), RLit("last")>>))>>)
      >>],
      [intent |-> "move_window", patterns |-> <<
        \* r'move (?:this |the )?(?:window|app) to workspace (\d+)'
        RCat(<<RLit("move "), ROpt(RCat(<<RLit("th"), RAlt(<<RLit("is "), RLit("e ")>>)>>)), RAlt(<<RLit("window"), RLit("app")>>), RLit(" to workspace "), RGrp(RCls(DigitCh, 1, -1, TRUE))>>),
        \* r'send (?:this |the )?(?:window|app) to workspace (\d+)'
        RCat(<<RLit("send "), ROpt(RCat(<<RLit("th"), RAlt(<<RLit("is "), RLit("e ")>>)>>)), RAlt(<<RLit("window"), RLit("app")>>), RLit(" to workspace "), RGrp(RCls(DigitCh, 1, -1, TRUE))>>),
        \* r'put (?:this |the )?(?:window|app) (?:in|on) workspace (\d+)'
        RCat(<<RLit("put "), ROpt(RCat(<<RLit("th"), RAlt(<<RLit("is "), RLit("e ")>>)>>)), RAlt(<<RLit("window"), RLit("app")>>), RLit(" "), RAlt(<<RLit("in"), RLit("on")>>), RLit(" workspace "), RGrp(RCls(DigitCh, 1, -1, TRUE))>>)
      >>],
      [intent |-> "workspace_info", patterns |-> <<
        \* r'(?:info|information|details) (?:about )?workspace (\d+|current|this)'
        RCat(<<RAlt(<<RLit("info"), RLit("information"), RLit("details")>>), RLit(" "), ROpt(RLit("about ")), RLit("workspace "), RGrp(RAlt(<<RCls(DigitCh, 1, -1, TRUE), RLit("current"), RLit("this")>>))>>),
        \* r'(?:what is|describe) workspace (\d+|current|this)'
        RCat(<<RAlt(<<RLit("what is"), RLit("describe")>>), RLit(" workspace "), RGrp(RAlt(<<RCls(DigitCh, 1, -1, TRUE), RLit("current"), RLit("this")>>))>>),
        \* r'(?:tell me about|show) workspace (\d+|current|this) (?:details|info)?'
        RCat(<<RAlt(<<RLit("tell me about"), RLit("show")>>), RLit(" workspace "), RGrp(RAlt(<<RCls(DigitCh, 1, -1, TRUE), RLit("current"), RLit("this")>>)), RLit(" "), ROpt(RAlt(<<RLit("details"), RLit("info")>>))>>)
      >>],
      [intent |-> "organize_workspaces", patterns |-> <<
        \* r'organize (?:my )?workspaces'
        RCat(<<RLit("organize "), ROpt(RLit("my ")), RLit("workspaces")>>),
        \* r'(?:auto|smart) (?:arrange|organize|group) workspaces'
        RCat(<<RAlt(<<RLit("auto"), RLit("smart")>>), RLit(" "), RAlt(<<RLit("arrange"), RLit("organize"), RLit("group")>>), RLit(" workspaces")>>),
        \* r'optimize (?:my )?workspace (?:layout|arrangement)'
        RCat(<<RLit("optimize "), ROpt(RLit("my ")), RLit("workspace "), RAlt(<<RLit("layout"), RLit("arrangement")>>)>>),
        \* r'(?:clean up|tidy) (?:my )?workspaces'
        RCat(<<RAlt(<<RLit("clean up"), RLit("tidy")>>), RLit(" "), ROpt(RLit("my ")), RLit("workspaces")>>)
      >>],
      [intent |-> "workspace_overview", patterns |-> <<
        \* r'workspace (?:overview|summary|dashboard)'
        RCat(<<RLit("workspace "), RAlt(<<RLit("overview"), RLit("summary"), RLit("dashboard")>>)>>),
        \* r'show (?:me )?(?:all )?workspace (?:activity|usage)'
        RCat(<<RLit("show "), ROpt(RLit("me ")), ROpt(RLit("all ")), RLit("workspace "), RAlt(<<RLit("activity"), RLit("usage")>>)>>),
        \* r'workspace (?:statistics|stats|analytics)'
        RCat(<<RLit("workspace "), RAlt(<<RLit("statistics"), RLit("stats"), RLit("analytics")>>)>>)
      >>]
    >>

(***************************************************************************)
(* Python containers: a dict is the sequence of its [k, v] items in        *)
(* insertion order.                                                        *)
(***************************************************************************)
DictKeys(d) == [i \in 1..Len(d) |-> d[i].k]

DictKeySet(d) == { d[i].k : i \in 1..Len(d) }

DictHas(d, key) == key \in DictKeySet(d)

\* d[key], key present
DictGet(d, key) == d[CHOOSE i \in 1..Len(d) : d[i].k = key].v

\* d[key] = val: an existing key keeps its position
DictSet(d, key, val) ==
    IF DictHas(d, key)
    THEN [i \in 1..Len(d) |-> IF d[i].k = key THEN [k |-> key, v |-> val] ELSE d[i]]
    ELSE Append(d, [k |-> key, v |-> val])

RECURSIVE SeqFilterKey(_, _)
\* the items of d whose key is not key (del d[key], d.pop(key))
SeqFilterKey(d, key) ==
    IF d = << >> THEN << >>
    ELSE IF Head(d).k = key THEN SeqFilterKey(Tail(d), key)
    ELSE << Head(d) >> \o SeqFilterKey(Tail(d), key)

DictDel(d, key) == SeqFilterKey(d, key)

RECURSIVE SeqWithout(_, _)
\* [x for x in s if x != v]
SeqWithout(s, v) ==
    IF s = << >> THEN << >>
    ELSE IF Head(s) = v THEN SeqWithout(Tail(s), v)
    ELSE << Head(s) >> \o SeqWithout(Tail(s), v)

SeqHas(s, v) == \E i \in 1..Len(s) : s[i] = v

SetMax(S) == CHOOSE x \in S : \A y \in S : y <= x

SetMin(S) == CHOOSE x \in S : \A y \in S : x <= y

RECURSIVE SortedInts(_)
\* sorted(S) of a set of integers
SortedInts(S) == IF S = {} THEN << >> ELSE << SetMin(S) >> \o SortedInts(S \ {SetMin(S)})

\* list.index(v), v present
IndexOf(s, v) == CHOOSE i \in 1..Len(s) : s[i] = v /\ \A j \in 1..(i - 1) : s[j] # v

\* a < b for strings of lower-case letters (Python's str ordering)
CharRank(c) == CHOOSE k \in 1..26 : SubSeq(LowerAlpha, k, k) = c
RECURSIVE StrLess(_, _)
StrLess(a, b) ==
    IF b = "" THEN FALSE
    ELSE IF a = "" THEN TRUE
    ELSE IF Head(a) = Head(b) THEN StrLess(Tail(a), Tail(b))
    ELSE CharRank(Head(a)) < CharRank(Head(b))

\* str.upper() of lower-case letters
RECURSIVE Upper(_)
Upper(s) ==
    IF s = "" THEN ""
    ELSE (IF Head(s) \in LowerSet
          THEN SubSeq(UpperAlpha, CharRank(Head(s)), CharRank(Head(s)))
          ELSE Head(s)) \o Upper(Tail(s))

\* str.title() of one lower-case word
Title(s) == IF s = "" THEN "" ELSE Upper(Head(s)) \o Tail(s)

\* any(kw in text for kw in kws)
AnyIn(kws, text) == \E i \in 1..Len(kws) : Contains(text, kws[i])

\* any(sub in s for s in strs)
AnyContains(strs, sub) == \E i \in 1..Len(strs) : Contains(strs[i], sub)

(***************************************************************************)
(* What a handler gives back: the manager's state after it, and either the *)
(* string it returned or the exception it raised (exc, out = str(e)).      *)
(***************************************************************************)
Ret(m, out) == [m |-> m, exc |-> FALSE, out |-> out]

Raise(m, msg) == [m |-> m, exc |-> TRUE, out |-> msg]

\* the value a table computed once holds for the key, or else the value itself
Memo(table, key, value) == IF key \in DOMAIN table THEN table[key] ELSE value

\* try: r, except Exception as e: the text of e after prefix
Caught(r, prefix) == IF r.exc THEN Ret(r.m, prefix \o r.out) ELSE r

\* an Optional[int]: a value, or Python's None
Some(v) == [some |-> TRUE, v |-> v]

Nothing == [some |-> FALSE, v |-> 0]

(***************************************************************************)
(* workspace_manager.py: IntelligentWorkspaceManager                       *)
(*                                                                         *)
(* A SmartWorkspace is the record of the dataclass fields that the         *)
(* commands read or write: id, name, workspace_type (the enum member's     *)
(* value), description, usage_count, persistent_layout.  The clock fields  *)
(* (creation_time, last_used) only feed displayed text and are left out,   *)
(* as are the fields no command ever changes (applications, window_ids,    *)
(* auto_created, background_image, color_theme) and ai_suggested_apps,     *)
(* which is a function of workspace_type.                                  *)
(* The manager m is [workspaces, current_workspace_id, workspace_history,  *)
(* file]; file is the content of ~/.personalaios/workspaces/workspaces.json*)
(***************************************************************************)
WorkspaceType == << "general", "development", "productivity", "creative",
                    "communication", "entertainment", "research", "system" >>

WorkspaceTypeValues == { WorkspaceType[i] : i \in 1..Len(WorkspaceType) }

max_workspaces == 16

max_history == 10

type_keywords ==
    << [type |-> "development",
        keywords |-> << "code", "coding", "programming", "dev", "development", "project", "git", "terminal" >>],
       [type |-> "productivity",
        keywords |-> << "work", "office", "documents", "productivity", "tasks", "planning", "notes" >>],
       [type |-> "creative",
        keywords |-> << "design", "art", "creative", "photo", "video", "music", "graphics", "editing" >>],
       [type |-> "communication",
        keywords |-> << "chat", "email", "communication", "social", "messaging", "calls", "meetings" >>],
       [type |-> "entertainment",
        keywords |-> << "entertainment", "games", "media", "movies", "youtube", "streaming", "fun" >>],
       [type |-> "research",
        keywords |-> << "research", "reading", "study", "learning", "web", "browser", "reference" >>],
       [type |-> "system",
        keywords |-> << "system", "admin", "settings", "configuration", "monitoring", "logs" >>] >>

\* r'\b(?:please|can\s+you|would\s+you|could\s+you|i\s+want\s+to)\b'
filler_words ==
    RCat(<<RWb, RAlt(<<RLit("please"),
                       RCat(<<RLit("can"), RCls(SpaceCh, 1, -1, TRUE), RLit("you")>>),
                       RCat(<<RLit("would"), RCls(SpaceCh, 1, -1, TRUE), RLit("you")>>),
                       RCat(<<RLit("could"), RCls(SpaceCh, 1, -1, TRUE), RLit("you")>>),
                       RCat(<<RLit("i"), RCls(SpaceCh, 1, -1, TRUE), RLit("want"),
                              RCls(SpaceCh, 1, -1, TRUE), RLit("to")>>)>>), RWb>>)

\* r'\s+'
whitespace_run == RCls(SpaceCh, 1, -1, TRUE)

\* _preprocess_text of the settings and workspace managers
_preprocess_text(text) ==
    Lower(Strip(ReSub(whitespace_run, " ", ReSub(filler_words, "", text, TRUE), FALSE)))

\* the first type, in table order, one of whose keywords occurs in the text;
\* "" where the code has None
_detect_workspace_type(text) ==
    LET text_lower == Lower(text)
        hits == { i \in 1..Len(type_keywords) : AnyIn(type_keywords[i].keywords, text_lower) }
    IN  IF hits = {} THEN "" ELSE type_keywords[SetMin(hits)].type

ws__extract_context(text) ==
    [ suggested_type |-> _detect_workspace_type(text),
      urgency        |-> AnyIn(<< "urgent", "now", "quickly", "asap" >>, text),
      persistent     |-> AnyIn(<< "permanent", "persistent", "keep", "save" >>, text) ]

\* groups[0].strip() if groups and groups[0] else None
_determine_workspace_target(groups) ==
    IF groups # << >> /\ groups[1].m /\ groups[1].s # ""
    THEN Capture(Strip(groups[1].s))
    ELSE NoCapture

ws__extract_intent_and_entities(text) ==
    LET hit == ScanTable(ws_intent_patterns, text)
    IN  IF hit.intent = NoIntent
        THEN [ intent |-> NoIntent, groups |-> << >>, context |-> ws__extract_context(""),
               workspace_target |-> NoCapture ]
        ELSE [ intent |-> hit.intent, groups |-> hit.groups,
               context |-> ws__extract_context(text),
               workspace_target |-> _determine_workspace_target(hit.groups) ]

SmartWorkspace(id, name, type, description, usage, persistent) ==
    [ id |-> id, name |-> name, workspace_type |-> type, description |-> description,
      usage_count |-> usage, persistent_layout |-> persistent ]

\* the manager before _load_workspaces: the state _initialize_default_workspace builds
_initialize_default_workspace(file) ==
    [ workspaces |-> << [k |-> 1, v |-> SmartWorkspace(1, "Main", "general", "Default workspace", 1, FALSE)] >>,
      current_workspace_id |-> 1,
      workspace_history    |-> << 1 >>,
      file                 |-> file ]

(***************************************************************************)
(* json.dump(save_data, default=str) and json.load.  A key of the          *)
(* workspaces object is str(ws_id); an enum member, which json cannot      *)
(* encode, goes through default=str and is written as "WorkspaceType.NAME".*)
(* A file is [kind, doc]: kind "missing", "garbage" (not JSON) or "json".  *)
(***************************************************************************)
EnumName(value) == Upper(value)

EnumStr(value) == "WorkspaceType." \o EnumName(value)

asdict(w) == [ w EXCEPT !.workspace_type = EnumStr(w.workspace_type) ]

EmptyDoc == [ workspaces |-> << >>, current_workspace_id |-> 1, workspace_history |-> << 1 >> ]

MissingFile == [ kind |-> "missing", doc |-> EmptyDoc ]

GarbageFile == [ kind |-> "garbage", doc |-> EmptyDoc ]

_save_workspaces(m) ==
    [ m EXCEPT !.file =
        [ kind |-> "json",
          doc  |-> [ workspaces |-> [ i \in 1..Len(m.workspaces) |->
                                        [ k |-> IntToStr(m.workspaces[i].k),
                                          v |-> asdict(m.workspaces[i].v) ] ],
                     current_workspace_id |-> m.current_workspace_id,
                     workspace_history    |-> m.workspace_history ] ] ]

RECURSIVE LoadRecords(_, _)
\* the loop over save_data['workspaces'].items(): the dict built so far, and
\* whether every record was accepted (WorkspaceType(value) raises ValueError
\* on a string that is no member's value, which ends the loop)
LoadRecords(items, acc) ==
    IF items = << >> THEN [ ok |-> TRUE, d |-> acc ]
    ELSE LET it == Head(items)
         IN  IF ~IsDigitStr(it.k) \/ it.v.workspace_type \notin WorkspaceTypeValues
             THEN [ ok |-> FALSE, d |-> acc ]
             ELSE LoadRecords(Tail(items), DictSet(acc, DigitsToInt(it.k), it.v))

_load_workspaces(m) ==
    IF m.file.kind # "json" THEN m
    ELSE LET loaded == LoadRecords(m.file.doc.workspaces, << >>)
         IN  IF loaded.ok
             THEN [ m EXCEPT !.workspaces = loaded.d,
                             !.current_workspace_id = m.file.doc.current_workspace_id,
                             !.workspace_history = m.file.doc.workspace_history ]
             ELSE [ m EXCEPT !.workspaces = loaded.d ]

\* IntelligentWorkspaceManager(): the constructor, over the file it finds
ws___init__(file) == _load_workspaces(_initialize_default_workspace(file))

_switch_to_workspace(m, workspace_id) ==
    IF ~DictHas(m.workspaces, workspace_id) THEN m
    ELSE LET w    == DictGet(m.workspaces, workspace_id)
             hist == Append(SeqWithout(m.workspace_history, workspace_id), workspace_id)
         IN  [ m EXCEPT !.current_workspace_id = workspace_id,
                        !.workspaces = DictSet(m.workspaces, workspace_id,
                                               [ w EXCEPT !.usage_count = w.usage_count + 1 ]),
                        !.workspace_history =
                            IF Len(hist) > max_history THEN Tail(hist) ELSE hist ]

\* the Optional[int] the identifier resolves to, or the exception raised
_resolve_workspace_identifier(m, identifier) ==
    LET id   == Strip(Lower(identifier))
        keys == DictKeySet(m.workspaces)
        ids  == SortedInts(keys)
        cur  == m.current_workspace_id
    IN  IF IsDigitStr(id) THEN [ exc |-> FALSE, msg |-> "", r |-> Some(DigitsToInt(id)) ]
        ELSE IF id \in { "next", "previous" }
        THEN IF cur \notin keys
             THEN [ exc |-> TRUE, msg |-> IntToStr(cur) \o " is not in list", r |-> Nothing ]
             ELSE LET idx == IndexOf(ids, cur) - 1
                      nxt == IF id = "next" THEN (idx + 1) % Len(ids) ELSE (idx - 1) % Len(ids)
                  IN  [ exc |-> FALSE, msg |-> "", r |-> Some(ids[nxt + 1]) ]
        ELSE IF id = "first"
        THEN IF keys = {} THEN [ exc |-> TRUE, msg |-> "min() arg is an empty sequence", r |-> Nothing ]
             ELSE [ exc |-> FALSE, msg |-> "", r |-> Some(SetMin(keys)) ]
        ELSE IF id = "last"
        THEN IF keys = {} THEN [ exc |-> TRUE, msg |-> "max() arg is an empty sequence", r |-> Nothing ]
             ELSE [ exc |-> FALSE, msg |-> "", r |-> Some(SetMax(keys)) ]
        ELSE [ exc |-> FALSE, msg |-> "", r |-> Nothing ]

_find_workspace_by_name(m, name) ==
    LET name_lower == Strip(Lower(name))
        d       == m.workspaces
        exact   == { i \in 1..Len(d) : Lower(d[i].v.name) = name_lower }
        partial == { i \in 1..Len(d) : Contains(Lower(d[i].v.name), name_lower) }
        \* the (type, workspace) pairs of the nested loops, in loop order
        typed   == { t \in 1..Len(type_keywords) :
                       /\ AnyIn(type_keywords[t].keywords, name_lower)
                       /\ \E i \in 1..Len(d) : d[i].v.workspace_type = type_keywords[t].type }
    IN  IF exact # {} THEN Some(d[SetMin(exact)].v.id)
        ELSE IF partial # {} THEN Some(d[SetMin(partial)].v.id)
        ELSE IF typed # {}
        THEN LET ty == type_keywords[SetMin(typed)].type
             IN  Some(d[SetMin({ i \in 1..Len(d) : d[i].v.workspace_type = ty })].v.id)
        ELSE Nothing

\* str(e) of the AttributeError that None.strip() raises
NoneStrip == "'NoneType' object has no attribute 'strip'"

_handle_create_workspace(m, entities) ==
    IF ~entities.workspace_target.m THEN Raise(m, NoneStrip)
    ELSE
    LET workspace_name == Strip(entities.workspace_target.s)
        keys           == DictKeySet(m.workspaces)
    IN  IF workspace_name = ""
        THEN Ret(m, "**Please specify a name for the new workspace**")
        ELSE IF Len(m.workspaces) >= max_workspaces
        THEN Ret(m, "**Maximum workspaces reached** (" \o IntToStr(max_workspaces) \o ")")
        ELSE IF keys = {} THEN Raise(m, "max() arg is an empty sequence")
        ELSE
        LET new_id == SetMax(keys) + 1
            workspace_type == IF entities.context.suggested_type = "" THEN "general"
                              ELSE entities.context.suggested_type
            new_workspace == SmartWorkspace(new_id, workspace_name, workspace_type,
                                            "Workspace for " \o workspace_name, 0,
                                            entities.context.persistent)
            m1 == [ m EXCEPT !.workspaces = DictSet(m.workspaces, new_id, new_workspace) ]
            m2 == _save_workspaces(_switch_to_workspace(m1, new_id))
            type_info == IF workspace_type # "general" THEN " (" \o workspace_type \o ")" ELSE ""
        IN  Ret(m2, "**Created workspace:** " \o workspace_name \o type_info
                    \o "\n   ID: " \o IntToStr(new_id))

_handle_switch_workspace(m, entities) ==
    IF ~entities.workspace_target.m THEN Raise(m, NoneStrip)
    ELSE
    LET target == Strip(entities.workspace_target.s)
        res    == _resolve_workspace_identifier(m, target)
        workspace_id == IF res.r.some THEN res.r ELSE _find_workspace_by_name(m, target)
    IN  IF target = ""
        THEN Ret(m, "**Please specify which workspace to switch to**")
        ELSE IF res.exc THEN Raise(m, res.msg)
        ELSE IF ~workspace_id.some
        THEN Ret(m, "**Workspace not found:** '" \o target \o "'")
        ELSE IF workspace_id.v = m.current_workspace_id
        THEN IF DictHas(m.workspaces, workspace_id.v)
             THEN Ret(m, "**Already on workspace:** " \o DictGet(m.workspaces, workspace_id.v).name)
             ELSE Raise(m, IntToStr(workspace_id.v))
        ELSE
        LET m1 == _switch_to_workspace(m, workspace_id.v)
        IN  \* self.workspaces[workspace_id]: KeyError on an id that is no key
            IF ~DictHas(m1.workspaces, workspace_id.v)
            THEN Raise(m1, IntToStr(workspace_id.v))
            ELSE LET workspace == DictGet(m1.workspaces, workspace_id.v)
                 IN  Ret(m1, "**Switched to workspace:** " \o workspace.name
                             \o "\n   ID: " \o IntToStr(workspace.id)
                             \o "\n   Type: " \o Title(workspace.workspace_type))

_handle_list_workspaces(m, entities) ==
    IF m.workspaces = << >> THEN Ret(m, "**No workspaces available**")
    ELSE Ret(m, "**Available Workspaces** (" \o IntToStr(Len(m.workspaces)) \o " total):")

_handle_rename_workspace(m, entities) ==
    LET groups == entities.groups
    IN  IF Len(groups) < 2 THEN Ret(m, "**Please specify workspace and new name**")
        ELSE IF ~groups[1].m \/ ~groups[2].m THEN Raise(m, NoneStrip)
        ELSE
        LET workspace_identifier == Strip(groups[1].s)
            new_name == Strip(groups[2].s)
            by_name  == Lower(workspace_identifier) \in { "current", "this" }
            workspace_id == IF by_name THEN m.current_workspace_id
                            ELSE DigitsToInt(workspace_identifier)
        IN  IF ~by_name /\ ~IsDigitStr(workspace_identifier)
            THEN Ret(m, "**Invalid workspace identifier:** '" \o workspace_identifier \o "'")
            ELSE IF ~DictHas(m.workspaces, workspace_id)
            THEN Ret(m, "**Workspace not found:** " \o IntToStr(workspace_id))
            ELSE
            LET w        == DictGet(m.workspaces, workspace_id)
                old_name == w.name
                w1 == [ w EXCEPT !.name = new_name,
                                 !.description =
                                    IF w.description = "Workspace for " \o old_name
                                    THEN "Workspace for " \o new_name ELSE w.description ]
                m1 == _save_workspaces([ m EXCEPT !.workspaces = DictSet(m.workspaces, workspace_id, w1) ])
            IN  Ret(m1, "**Renamed workspace:** '" \o old_name \o "' -> '" \o new_name \o "'")

_handle_delete_workspace(m, entities) ==
    IF ~entities.workspace_target.m THEN Raise(m, NoneStrip)
    ELSE
    LET target == Strip(entities.workspace_target.s)
        res    == _resolve_workspace_identifier(m, target)
        workspace_id == res.r.v
    IN  IF target = "" THEN Ret(m, "**Please specify which workspace to delete**")
        ELSE IF res.exc THEN Raise(m, res.msg)
        ELSE IF ~res.r.some THEN Ret(m, "**Invalid workspace identifier:** '" \o target \o "'")
        ELSE IF ~DictHas(m.workspaces, workspace_id)
        THEN Ret(m, "**Workspace not found:** " \o IntToStr(workspace_id))
        ELSE IF workspace_id = 1 THEN Ret(m, "**Cannot delete the main workspace** (ID: 1)")
        ELSE IF workspace_id = m.current_workspace_id
        THEN Ret(m, "**Cannot delete current active workspace**")
        ELSE
        LET deleted_workspace == DictGet(m.workspaces, workspace_id)
            m1 == _save_workspaces(
                    [ m EXCEPT !.workspaces = DictDel(m.workspaces, workspace_id),
                               !.workspace_history = SeqWithout(m.workspace_history, workspace_id) ])
        IN  Ret(m1, "**Deleted workspace:** " \o deleted_workspace.name
                    \o "\n   ID: " \o IntToStr(workspace_id))

\* wmctrl is the outcome of subprocess.run(['wmctrl', ...]): "ok" (exit code
\* 0), "fail" (another exit code) or "missing" (FileNotFoundError)
_handle_move_window(m, entities, wmctrl) ==
    IF ~entities.workspace_target.m THEN Raise(m, NoneStrip)
    ELSE
    LET target == Strip(entities.workspace_target.s)
        \* int(target) of the (\d+) the patterns capture
        workspace_id == IF IsDigitStr(target) THEN Some(DigitsToInt(target))
                        ELSE _find_workspace_by_name(m, target)
    IN  IF target = "" THEN Ret(m, "**Please specify target workspace**")
        ELSE IF ~workspace_id.some \/ ~DictHas(m.workspaces, workspace_id.v)
        THEN Ret(m, "**Workspace not found:** '" \o target \o "'")
        ELSE IF wmctrl = "ok"
        THEN Ret(m, "**Moved window to workspace:** " \o DictGet(m.workspaces, workspace_id.v).name)
        ELSE Ret(m, "**Window management tools not available**")

_handle_workspace_info(m, entities) ==
    IF ~entities.workspace_target.m THEN Raise(m, NoneStrip)
    ELSE
    LET target == Strip(entities.workspace_target.s)
        res    == IF target \in { "current", "this" }
                  THEN [ exc |-> FALSE, msg |-> "", r |-> Some(m.current_workspace_id) ]
                  ELSE _resolve_workspace_identifier(m, target)
    IN  IF res.exc THEN Raise(m, res.msg)
        ELSE IF ~res.r.some \/ ~DictHas(m.workspaces, res.r.v)
        THEN Ret(m, "**Workspace not found:** '" \o target \o "'")
        ELSE Ret(m, "**Workspace Information:** " \o DictGet(m.workspaces, res.r.v).name)

_handle_workspace_overview(m, entities) ==
    IF m.workspaces = << >> THEN Ret(m, "**No workspaces available**")
    ELSE IF ~DictHas(m.workspaces, m.current_workspace_id)
    THEN Raise(m, IntToStr(m.current_workspace_id))
    ELSE Ret(m, "**Workspace Overview & Analytics**")

\* the sort key (workspace_type.value, -usage_count) of a is below that of b
OrganizeLess(a, b) ==
    \/ StrLess(a.workspace_type, b.workspace_type)
    \/ a.workspace_type = b.workspace_type /\ a.usage_count > b.usage_count

\* x put into the sorted list s behind every element that is not above it
InsertSorted(s, x) ==
    LET above == { i \in 1..Len(s) : OrganizeLess(x, s[i]) }
        at    == IF above = {} THEN Len(s) + 1 ELSE SetMin(above)
    IN  SubSeq(s, 1, at - 1) \o << x >> \o SubSeq(s, at, Len(s))

RECURSIVE StableSort(_, _)
\* list.sort(key=...): stable
StableSort(todo, done) ==
    IF todo = << >> THEN done ELSE StableSort(Tail(todo), InsertSorted(done, Head(todo)))

RECURSIVE BuildIdMapping(_, _, _)
\* the loop that fills new_id_mapping; i is enumerate's index
BuildIdMapping(workspace_list, i, acc) ==
    IF i >= Len(workspace_list) THEN acc
    ELSE LET workspace == workspace_list[i + 1]
             new_id    == IF workspace_list[1].id = 1 THEN i + 2 ELSE i + 1
         IN  IF workspace.id = 1 THEN BuildIdMapping(workspace_list, i + 1, acc)
             ELSE IF new_id # workspace.id
             THEN BuildIdMapping(workspace_list, i + 1,
                                 [ d |-> DictSet(acc.d, workspace.id, new_id), n |-> acc.n + 1 ])
             ELSE BuildIdMapping(workspace_list, i + 1, acc)

RECURSIVE ApplyIdMapping(_, _, _)
\* the loop that fills new_workspaces: a later workspace mapped to a key
\* already present overwrites the earlier one
ApplyIdMapping(items, mapping, acc) ==
    IF items = << >> THEN acc
    ELSE LET old_id == Head(items).k
             new_id == IF DictHas(mapping, old_id) THEN DictGet(mapping, old_id) ELSE old_id
         IN  ApplyIdMapping(Tail(items), mapping,
                            DictSet(acc, new_id, [ Head(items).v EXCEPT !.id = new_id ]))

RECURSIVE DropEmpty(_, _)
\* the workspaces left by the clean-up loop, and the number deleted
DropEmpty(items, current) ==
    IF items = << >> THEN [ d |-> << >>, n |-> 0 ]
    ELSE LET it   == Head(items)
             rest == DropEmpty(Tail(items), current)
         IN  IF it.v.usage_count = 0 /\ it.v.id # 1 /\ it.k # current
             THEN [ d |-> rest.d, n |-> rest.n + 1 ]
             ELSE [ d |-> << it >> \o rest.d, n |-> rest.n ]

_handle_organize_workspaces(m, entities) ==
    LET workspace_list == StableSort([ i \in 1..Len(m.workspaces) |-> m.workspaces[i].v ], << >>)
        mapping        == BuildIdMapping(workspace_list, 0, [ d |-> << >>, n |-> 0 ])
        new_workspaces == ApplyIdMapping(m.workspaces, mapping.d, << >>)
        current        == IF DictHas(mapping.d, m.current_workspace_id)
                          THEN DictGet(mapping.d, m.current_workspace_id)
                          ELSE m.current_workspace_id
        cleaned        == DropEmpty(new_workspaces, current)
        organized_count == mapping.n + cleaned.n
        m1 == _save_workspaces([ m EXCEPT !.workspaces = cleaned.d,
                                          !.current_workspace_id = current ])
    IN  IF organized_count > 0
        THEN Ret(m1, "**Organized workspaces:** " \o IntToStr(organized_count) \o " changes made")
        ELSE Ret(m1, "**Workspaces already organized**")

ws__handle_unknown_intent(user_input) ==
    "**I didn't understand:** \"" \o user_input \o "\"\n\n"
    \o "**Try these natural language workspace commands:**"

\* the handler's outcome; an exception it raises is turned into a string
_execute_workspace_intent(m, intent, entities, wmctrl) ==
    Caught(CASE intent = "create_workspace"    -> _handle_create_workspace(m, entities)
             [] intent = "switch_workspace"    -> _handle_switch_workspace(m, entities)
             [] intent = "list_workspaces"     -> _handle_list_workspaces(m, entities)
             [] intent = "rename_workspace"    -> _handle_rename_workspace(m, entities)
             [] intent = "delete_workspace"    -> _handle_delete_workspace(m, entities)
             [] intent = "move_window"         -> _handle_move_window(m, entities, wmctrl)
             [] intent = "workspace_info"      -> _handle_workspace_info(m, entities)
             [] intent = "organize_workspaces" -> _handle_organize_workspaces(m, entities)
             [] intent = "workspace_overview"  -> _handle_workspace_overview(m, entities)
             [] OTHER -> Ret(m, "**Intent recognized** (" \o intent
                                \o ") but implementation pending"),
           "**Workspace management error:** ")

\* process_command once the intent and the entities are extracted
ws_route(m, user_input, entities, wmctrl) ==
    IF entities.intent = NoIntent
    THEN Ret(m, ws__handle_unknown_intent(user_input))
    ELSE _execute_workspace_intent(m, entities.intent, entities, wmctrl)

ws_process_command(m, user_input, wmctrl) ==
    ws_route(m, user_input, ws__extract_intent_and_entities(_preprocess_text(user_input)),
             wmctrl)

(***************************************************************************)
(* The workspace manager as a state machine.                               *)
(*   ws         the manager                                                *)
(*   ws_input   the last command given to process_command                  *)
(*   ws_result  the string process_command returned for it                *)
(*   ws_op      what the last step was: "init", "command", "restart",      *)
(*              "lost", "garbled" or "damaged"                             *)
(***************************************************************************)
VARIABLES ws, ws_input, ws_result, ws_op

wsVars == << ws, ws_input, ws_result, ws_op >>

\* the largest number of workspaces and the largest usage count explored
MaxWorkspaces == 2

MaxUsage == 2

WsCommands ==
    { "Please create a workspace for coding",
      "switch to workspace 1", "switch to workspace 9", "go to workspace next",
      "switch to music workspace", "rename workspace current to dev", "delete workspace 2",
      "delete workspace current", "organize workspaces", "list workspaces", "workspace stats",
      "info about workspace current", "move window to workspace 1", "", "   " }

WmctrlOutcomes == { "ok", "fail", "missing" }

\* intent and entities of each command, computed once
ws_entities == [ c \in WsCommands |-> ws__extract_intent_and_entities(_preprocess_text(c)) ]

WsWithinBounds(m) ==
    /\ Len(m.workspaces) <= MaxWorkspaces
    /\ \A i \in 1..Len(m.workspaces) : m.workspaces[i].v.usage_count <= MaxUsage

WsInit ==
    /\ ws = ws___init__(MissingFile)
    /\ ws_input = ""
    /\ ws_result = ""
    /\ ws_op = "init"

\* process_command(user_input)
WsProcessCommand(user_input, wmctrl) ==
    \E entities \in { ws_entities[user_input] } :
    \E r \in { ws_route(ws, user_input, entities, wmctrl) } :
        /\ wmctrl # "ok" => entities.intent = "move_window"
        /\ WsWithinBounds(r.m)
        /\ ws' = r.m
        /\ ws_input' = user_input
        /\ ws_result' = r.out
        /\ ws_op' = "command"

\* the process ends and a new manager is constructed over the same file
WsRestart ==
    /\ ws' = ws___init__(ws.file)
    /\ ws_op' = "restart"
    /\ UNCHANGED << ws_input, ws_result >>

\* the store is deleted
WsFileLost ==
    /\ ws.file.kind # "missing"
    /\ ws' = [ ws EXCEPT !.file = MissingFile ]
    /\ ws_op' = "lost"
    /\ UNCHANGED << ws_input, ws_result >>

\* the store is overwritten with bytes that are not JSON
WsFileGarbled ==
    /\ ws.file.kind # "garbage"
    /\ ws' = [ ws EXCEPT !.file = GarbageFile ]
    /\ ws_op' = "garbled"
    /\ UNCHANGED << ws_input, ws_result >>

\* one record of the store, still JSON, gets a workspace_type that names no type
WsFileDamaged ==
    /\ ws.file.kind = "json"
    /\ \E i \in 1..Len(ws.file.doc.workspaces) :
          /\ ws.file.doc.workspaces[i].v.workspace_type # "bogus"
          /\ ws' = [ ws EXCEPT !.file.doc.workspaces[i].v.workspace_type = "bogus" ]
    /\ ws_op' = "damaged"
    /\ UNCHANGED << ws_input, ws_result >>

\* the logical state of a workspace manager: what it holds, apart from the store
WsLogical(m) == << m.workspaces, m.current_workspace_id, m.workspace_history >>

\* the store holds what _save_workspaces writes from the manager's own state
WsStoreCurrent(m) == m.file = _save_workspaces(m).file

\* C1 (workspace manager): whenever the store is the manager's saved state,
\* a manager constructed over that store has the same logical state
C1_WorkspaceRoundTrip ==
    (ws.file.kind = "json" /\ WsStoreCurrent(ws))
        => WsLogical(ws___init__(ws.file)) = WsLogical(ws)

\* the command asks to switch to a workspace by a number that no workspace has
WsSwitchToMissingNumber ==
    /\ ws_op = "command"
    /\ ws_entities[ws_input].intent = "switch_workspace"
    /\ ws_entities[ws_input].workspace_target.m
    /\ IsDigitStr(ws_entities[ws_input].workspace_target.s)
    /\ ~DictHas(ws.workspaces, DigitsToInt(ws_entities[ws_input].workspace_target.s))

\* C8 (workspace switch): a switch to a workspace number that does not exist
\* is answered with a "Workspace not found" message
C8_SwitchNotFound ==
    WsSwitchToMissingNumber => Contains(ws_result, "Workspace not found")

\* a store a manager cannot have written: absent, not JSON, or JSON with a
\* record whose workspace_type is neither a type nor the text save writes for one
WsStoreMissingOrCorrupt(f) ==
    \/ f.kind \in { "missing", "garbage" }
    \/ /\ f.kind = "json"
       /\ \E i \in 1..Len(f.doc.workspaces) :
             f.doc.workspaces[i].v.workspace_type
                \notin (WorkspaceTypeValues \cup { EnumStr(t) : t \in WorkspaceTypeValues })

\* C10 (workspace manager): a manager constructed over a missing or corrupt
\* store holds exactly the default workspace "Main", id 1, as current
C10_WorkspaceFreshStart ==
    (ws_op = "restart" /\ WsStoreMissingOrCorrupt(ws.file))
        => WsLogical(ws) = WsLogical(_initialize_default_workspace(ws.file))

\* the workspace _initialize_default_workspace created is stored under id 1
WsHasMain(m) ==
    \E i \in 1..Len(m.workspaces) :
        /\ m.workspaces[i].k = 1
        /\ m.workspaces[i].v.id = 1
        /\ m.workspaces[i].v.description = "Default workspace"

\* C14: after any sequence of workspace commands (create, switch, rename,
\* delete, organize) the main workspace created at start-up still exists and
\* is still stored under id 1: no command removes it or replaces it with
\* another workspace.
C14_MainWorkspaceKept ==
    [][ (WsHasMain(ws) /\ ws_op' = "command") => WsHasMain(ws') ]_wsVars

(***************************************************************************)
(* settings_manager.py: IntelligentSettingsManager                         *)
(*                                                                         *)
(* A setting value is [t, n, s]: a bool (n 1 or 0), an int (n), a float    *)
(* (n hundredths, or s = "nan" / "inf" / "-inf"), a str (s) or None.       *)
(* The commands of the model give numbers with at most two decimals, so    *)
(* hundredths are exact.  last_modified, a clock reading, is left out.     *)
(***************************************************************************)
VNone == [ t |-> "none", n |-> 0, s |-> "" ]

VBool(b) == [ t |-> "bool", n |-> IF b THEN 1 ELSE 0, s |-> "" ]

VInt(n) == [ t |-> "int", n |-> n, s |-> "" ]

VFloat(hundredths) == [ t |-> "float", n |-> hundredths, s |-> "" ]

VStr(s) == [ t |-> "str", n |-> 0, s |-> s ]

\* float('nan'), float('inf'), float('-inf')
VSpecialFloat(s) == [ t |-> "float", n |-> 0, s |-> s ]

core_settings ==
    <<
       [ id |-> "theme_mode", category |-> "appearance", name |-> "Theme Mode", setting_type |-> "choice",
         description |-> "System color theme preference",
         default_value |-> VStr("auto"), choices |-> << "auto", "light", "dark" >>,
         min_value |-> VNone, max_value |-> VNone, requires_restart |-> FALSE,
         keywords |-> << "theme", "appearance", "dark mode", "light mode" >> ],
       [ id |-> "accent_color", category |-> "appearance", name |-> "Accent Color", setting_type |-> "color",
         description |-> "Primary accent color for the interface",
         default_value |-> VStr("#1c71d8"), choices |-> <<  >>,
         min_value |-> VNone, max_value |-> VNone, requires_restart |-> FALSE,
         keywords |-> << "color", "accent", "theme" >> ],
       [ id |-> "wallpaper_path", category |-> "appearance", name |-> "Wallpaper", setting_type |-> "file",
         description |-> "Desktop background image",
         default_value |-> VStr("~/.personalaios/wallpapers/default.jpg"), choices |-> <<  >>,
         min_value |-> VNone, max_value |-> VNone, requires_restart |-> FALSE,
         keywords |-> << "wallpaper", "background", "desktop" >> ],
       [ id |-> "font_size", category |-> "appearance", name |-> "Font Size", setting_type |-> "float",
         description |-> "System font size scaling",
         default_value |-> VFloat(100), choices |-> <<  >>,
         min_value |-> VFloat(50), max_value |-> VFloat(300), requires_restart |-> FALSE,
         keywords |-> << "font", "text", "size", "scaling" >> ],
       [ id |-> "ai_natural_language", category |-> "personalaios", name |-> "Natural Language Processing", setting_type |-> "boolean",
         description |-> "Enable AI-powered natural language understanding",
         default_value |-> VBool(TRUE), choices |-> <<  >>,
         min_value |-> VNone, max_value |-> VNone, requires_restart |-> FALSE,
         keywords |-> << "ai", "nlp", "natural language", "understanding" >> ],
       [ id |-> "ai_learning_enabled", category |-> "personalaios", name |-> "AI Learning", setting_type |-> "boolean",
         description |-> "Allow PersonalAIOS to learn from your usage patterns",
         default_value |-> VBool(TRUE), choices |-> <<  >>,
         min_value |-> VNone, max_value |-> VNone, requires_restart |-> FALSE,
         keywords |-> << "learning", "ai", "patterns", "adaptation" >> ],
       [ id |-> "ai_suggestions", category |-> "personalaios", name |-> "AI Suggestions", setting_type |-> "boolean",
         description |-> "Show intelligent suggestions and recommendations",
         default_value |-> VBool(TRUE), choices |-> <<  >>,
         min_value |-> VNone, max_value |-> VNone, requires_restart |-> FALSE,
         keywords |-> << "suggestions", "recommendations", "ai" >> ],
       [ id |-> "desktop_mode_default", category |-> "personalaios", name |-> "Default Desktop Mode", setting_type |-> "boolean",
         description |-> "Start PersonalAIOS in desktop mode by default",
         default_value |-> VBool(TRUE), choices |-> <<  >>,
         min_value |-> VNone, max_value |-> VNone, requires_restart |-> TRUE,
         keywords |-> << "desktop", "mode", "startup" >> ],
       [ id |-> "animation_speed", category |-> "system", name |-> "Animation Speed", setting_type |-> "choice",
         description |-> "Speed of UI animations and transitions",
         default_value |-> VStr("normal"), choices |-> << "none", "fast", "normal", "slow" >>,
         min_value |-> VNone, max_value |-> VNone, requires_restart |-> FALSE,
         keywords |-> << "animation", "speed", "transitions" >> ],
       [ id |-> "auto_save_frequency", category |-> "system", name |-> "Auto Save Frequency", setting_type |-> "integer",
         description |-> "Frequency of automatic settings backup (minutes)",
         default_value |-> VInt(30), choices |-> <<  >>,
         min_value |-> VInt(5), max_value |-> VInt(480), requires_restart |-> FALSE,
         keywords |-> << "autosave", "backup", "frequency" >> ],
       [ id |-> "usage_statistics", category |-> "privacy", name |-> "Usage Statistics", setting_type |-> "boolean",
         description |-> "Collect anonymous usage statistics for improvement",
         default_value |-> VBool(FALSE), choices |-> <<  >>,
         min_value |-> VNone, max_value |-> VNone, requires_restart |-> FALSE,
         keywords |-> << "statistics", "telemetry", "privacy", "data" >> ],
       [ id |-> "location_services", category |-> "privacy", name |-> "Location Services", setting_type |-> "boolean",
         description |-> "Allow applications to access location data",
         default_value |-> VBool(FALSE), choices |-> <<  >>,
         min_value |-> VNone, max_value |-> VNone, requires_restart |-> FALSE,
         keywords |-> << "location", "gps", "privacy" >> ],
       [ id |-> "large_text", category |-> "accessibility", name |-> "Large Text", setting_type |-> "boolean",
         description |-> "Use larger text for better readability",
         default_value |-> VBool(FALSE), choices |-> <<  >>,
         min_value |-> VNone, max_value |-> VNone, requires_restart |-> FALSE,
         keywords |-> << "accessibility", "large text", "readability" >> ],
       [ id |-> "high_contrast", category |-> "accessibility", name |-> "High Contrast", setting_type |-> "boolean",
         description |-> "Use high contrast theme for better visibility",
         default_value |-> VBool(FALSE), choices |-> <<  >>,
         min_value |-> VNone, max_value |-> VNone, requires_restart |-> FALSE,
         keywords |-> << "accessibility", "high contrast", "visibility" >> ],
       [ id |-> "system_sounds", category |-> "sound", name |-> "System Sounds", setting_type |-> "boolean",
         description |-> "Enable system sound effects",
         default_value |-> VBool(TRUE), choices |-> <<  >>,
         min_value |-> VNone, max_value |-> VNone, requires_restart |-> FALSE,
         keywords |-> << "sounds", "audio", "effects" >> ],
       [ id |-> "notification_sounds", category |-> "sound", name |-> "Notification Sounds", setting_type |-> "boolean",
         description |-> "Play sounds for notifications",
         default_value |-> VBool(TRUE), choices |-> <<  >>,
         min_value |-> VNone, max_value |-> VNone, requires_restart |-> FALSE,
         keywords |-> << "notifications", "sounds", "alerts" >> ]
    >>

SettingIds == { core_settings[i].id : i \in 1..Len(core_settings) }

\* the definition of the setting with this id
SettingDef(id) == core_settings[CHOOSE i \in 1..Len(core_settings) : core_settings[i].id = id]

SettingCategory == << "appearance", "system", "privacy", "accessibility", "applications", "network",
                      "power", "sound", "display", "keyboard", "mouse", "personalaios" >>

setting_aliases ==
    << [ main_term |-> "theme",         aliases |-> << "appearance", "look", "style", "colors" >> ],
       [ main_term |-> "wallpaper",     aliases |-> << "background", "desktop background" >> ],
       [ main_term |-> "volume",        aliases |-> << "sound", "audio", "speaker" >> ],
       [ main_term |-> "brightness",    aliases |-> << "screen brightness", "display brightness" >> ],
       [ main_term |-> "wifi",          aliases |-> << "wireless", "internet", "network" >> ],
       [ main_term |-> "battery",       aliases |-> << "power", "energy", "charging" >> ],
       [ main_term |-> "keyboard",      aliases |-> << "keys", "typing", "shortcuts" >> ],
       [ main_term |-> "mouse",         aliases |-> << "pointer", "cursor", "clicking" >> ],
       [ main_term |-> "notifications", aliases |-> << "alerts", "popups", "messages" >> ],
       [ main_term |-> "privacy",       aliases |-> << "security", "tracking", "data" >> ],
       [ main_term |-> "accessibility", aliases |-> << "a11y", "disability", "assistance" >> ] >>

\* the settings dict after _initialize_core_settings: every current_value
\* is the default, modified_by "system"
_initialize_core_settings ==
    [ id \in SettingIds |-> [ current_value |-> SettingDef(id).default_value, modified_by |-> "system" ] ]

\* the text without a leading sign, and the sign
Unsigned(s) == IF s # "" /\ Head(s) \in { "+", "-" } THEN Tail(s) ELSE s

SignOf(s) == IF s # "" /\ Head(s) = "-" THEN -1 ELSE 1

\* int(s): ok is FALSE where int raises ValueError
ParseInt(s) ==
    IF IsDigitStr(Unsigned(s))
    THEN [ ok |-> TRUE, n |-> SignOf(s) * DigitsToInt(Unsigned(s)) ]
    ELSE [ ok |-> FALSE, n |-> 0 ]

\* float(s), for decimal numerals without exponent, nan and inf
ParseFloat(s) ==
    LET u    == Unsigned(s)
        dots == { p \in 1..Len(u) : SubSeq(u, p, p) = "." }
        p    == CHOOSE q \in dots : TRUE
        ip   == SubSeq(u, 1, p - 1)
        fp   == SubSeq(u, p + 1, Len(u))
        fp2  == SubSeq(fp \o "00", 1, 2)
    IN  IF Lower(u) = "nan" THEN [ ok |-> TRUE, v |-> VSpecialFloat("nan") ]
        ELSE IF Lower(u) \in { "inf", "infinity" }
        THEN [ ok |-> TRUE, v |-> VSpecialFloat(IF SignOf(s) = -1 THEN "-inf" ELSE "inf") ]
        ELSE IF dots = {}
        THEN IF IsDigitStr(u) THEN [ ok |-> TRUE, v |-> VFloat(SignOf(s) * 100 * DigitsToInt(u)) ]
             ELSE [ ok |-> FALSE, v |-> VNone ]
        ELSE IF /\ Cardinality(dots) = 1
                /\ ip = "" \/ IsDigitStr(ip)
                /\ fp = "" \/ IsDigitStr(fp)
                /\ ip \o fp # ""
        THEN [ ok |-> TRUE, v |-> VFloat(SignOf(s) * (100 * DigitsToInt(ip) + DigitsToInt(fp2))) ]
        ELSE [ ok |-> FALSE, v |-> VNone ]

\* a < b on ints and floats as Python compares them (nan compares FALSE)
NumLess(a, b) ==
    IF a.s = "nan" \/ b.s = "nan" THEN FALSE
    ELSE IF a.s = "-inf" THEN b.s # "-inf"
    ELSE IF a.s = "inf" THEN FALSE
    ELSE IF b.s = "inf" THEN TRUE
    ELSE IF b.s = "-inf" THEN FALSE
    ELSE a.n < b.n

TwoDigits(n) == IF n < 10 THEN "0" \o NatToStr(n) ELSE NatToStr(n)

\* f"{value:.2f}" of a float
FormatFixed2(v) ==
    IF v.s # "" THEN v.s
    ELSE (IF v.n < 0 THEN "-" ELSE "") \o
         LET a == IF v.n < 0 THEN 0 - v.n ELSE v.n
         IN  NatToStr(a \div 100) \o "." \o TwoDigits(a % 100)

\* repr(value) of a float, as json.dump writes it
FloatRepr(v) ==
    IF v.s = "nan" THEN "NaN"
    ELSE IF v.s = "inf" THEN "Infinity"
    ELSE IF v.s = "-inf" THEN "-Infinity"
    ELSE (IF v.n < 0 THEN "-" ELSE "") \o
         LET a == IF v.n < 0 THEN 0 - v.n ELSE v.n
             f == a % 100
         IN  NatToStr(a \div 100) \o "." \o
             (IF f % 10 = 0 THEN NatToStr(f \div 10) ELSE TwoDigits(f))

\* str(value)
ValueStr(v) ==
    CASE v.t = "none"  -> "None"
      [] v.t = "bool"  -> IF v.n = 1 THEN "True" ELSE "False"
      [] v.t = "int"   -> IntToStr(v.n)
      [] v.t = "float" -> IF v.s # "" THEN v.s ELSE FloatRepr(v)
      [] v.t = "str"   -> v.s

_format_value_by_type(setting_type, value) ==
    IF value.t = "none" THEN "None"
    ELSE IF setting_type = "boolean"
    THEN (IF (value.t = "str" /\ value.s # "") \/ (value.t # "str" /\ (value.n # 0 \/ value.s # ""))
          THEN "Enabled" ELSE "Disabled")
    ELSE IF setting_type = "float" /\ value.t \in { "int", "float", "bool" }
    THEN IF value.s = "" /\ 0 <= value.n /\ value.n <= (IF value.t = "float" THEN 100 ELSE 1)
         THEN NatToStr(IF value.t = "float" THEN value.n ELSE 100 * value.n) \o "%"
         ELSE IF value.t = "float" THEN FormatFixed2(value) ELSE IntToStr(value.n) \o ".00"
    ELSE IF setting_type = "color" THEN ValueStr(value)
    ELSE IF setting_type \in { "file", "directory" } THEN "'" \o ValueStr(value) \o "'"
    ELSE ValueStr(value)

(***************************************************************************)
(* json.dump and json.load of one value: a JSON literal, number or string. *)
(***************************************************************************)
ToJson(v) ==
    CASE v.t = "none"  -> [ j |-> "literal", text |-> "null" ]
      [] v.t = "bool"  -> [ j |-> "literal", text |-> IF v.n = 1 THEN "true" ELSE "false" ]
      [] v.t = "int"   -> [ j |-> "number", text |-> IntToStr(v.n) ]
      [] v.t = "float" -> [ j |-> "number", text |-> FloatRepr(v) ]
      [] v.t = "str"   -> [ j |-> "string", text |-> v.s ]

FromJson(x) ==
    CASE x.j = "string" -> VStr(x.text)
      [] x.j = "literal" -> (IF x.text = "null" THEN VNone ELSE VBool(x.text = "true"))
      [] x.j = "number" ->
            IF x.text = "NaN" THEN VSpecialFloat("nan")
            ELSE IF x.text = "Infinity" THEN VSpecialFloat("inf")
            ELSE IF x.text = "-Infinity" THEN VSpecialFloat("-inf")
            ELSE IF Contains(x.text, ".") THEN ParseFloat(x.text).v
            ELSE VInt(ParseInt(x.text).n)

HexChars == "0123456789abcdefABCDEF"

\* int(s, 16) succeeds
IsHexStr(s) ==
    LET u == Unsigned(s)
    IN  u # "" /\ \A k \in 1..Len(u) : SubSeq(u, k, k) \in CharsOf(HexChars)

Valid(v) == [ exc |-> FALSE, msg |-> "", v |-> v ]

Invalid(msg) == [ exc |-> TRUE, msg |-> msg, v |-> VNone ]

\* the matches of the partial-match tier, in the order of the choices
PartialChoices(choices, value_str) ==
    { i \in 1..Len(choices) : Contains(Lower(choices[i]), Lower(value_str)) }

\* the converted value, or the ValueError raised; path_exists is what
\* Path(value_str).expanduser().exists() answers
_validate_and_convert_value(setting, value_str0, path_exists) ==
    LET value_str == Strip(value_str0)
        t == setting.setting_type
    IN  IF t = "boolean"
        THEN IF Lower(value_str) \in { "true", "yes", "on", "enabled", "1" } THEN Valid(VBool(TRUE))
             ELSE IF Lower(value_str) \in { "false", "no", "off", "disabled", "0" } THEN Valid(VBool(FALSE))
             ELSE Invalid("Boolean value must be true/false, yes/no, on/off, enabled/disabled, or 1/0")
        ELSE IF t = "integer"
        THEN LET p == ParseInt(value_str)
             IN  IF ~p.ok THEN Invalid("Invalid integer value: " \o value_str)
                 ELSE IF setting.min_value.t # "none" /\ p.n < setting.min_value.n
                 THEN Invalid("Value must be at least " \o ValueStr(setting.min_value))
                 ELSE IF setting.max_value.t # "none" /\ p.n > setting.max_value.n
                 THEN Invalid("Value must be at most " \o ValueStr(setting.max_value))
                 ELSE Valid(VInt(p.n))
        ELSE IF t = "float"
        THEN LET p == ParseFloat(StrReplace(value_str, "%", ""))
             IN  IF ~p.ok THEN Invalid("Invalid number value: " \o value_str)
                 ELSE IF setting.min_value.t # "none" /\ NumLess(p.v, setting.min_value)
                 THEN Invalid("Value must be at least " \o ValueStr(setting.min_value))
                 ELSE IF setting.max_value.t # "none" /\ NumLess(setting.max_value, p.v)
                 THEN Invalid("Value must be at most " \o ValueStr(setting.max_value))
                 ELSE Valid(p.v)
        ELSE IF t = "choice"
        THEN LET choices == setting.choices
                 exact   == { i \in 1..Len(choices) : choices[i] = value_str }
                 nocase  == { i \in 1..Len(choices) : Lower(choices[i]) = Lower(value_str) }
                 matches == PartialChoices(choices, value_str)
             IN  IF choices = << >> THEN Valid(VStr(value_str))
                 ELSE IF exact # {} THEN Valid(VStr(value_str))
                 ELSE IF nocase # {} THEN Valid(VStr(choices[SetMin(nocase)]))
                 ELSE IF Cardinality(matches) = 1 THEN Valid(VStr(choices[SetMin(matches)]))
                 ELSE IF Cardinality(matches) > 1
                 THEN Invalid("Ambiguous choice '" \o value_str \o "'. Options: "
                              \o Join(", ", [ k \in 1..Cardinality(matches) |->
                                                choices[SortedInts(matches)[k]] ]))
                 ELSE Invalid("Invalid choice '" \o value_str \o "'. Options: " \o Join(", ", choices))
        ELSE IF t = "color"
        THEN IF /\ StartsWith(value_str, "#")
                /\ Len(value_str) \in { 4, 7 }
                /\ IsHexStr(Tail(value_str))
             THEN Valid(VStr(value_str))
             ELSE Invalid("Invalid color format. Use hex format like #ff0000 or #f00")
        ELSE IF t = "file"
        THEN IF path_exists THEN Valid(VStr(value_str))
             ELSE Invalid("File does not exist: " \o value_str)
        ELSE IF t = "directory"
        THEN IF path_exists THEN Valid(VStr(value_str))
             ELSE Invalid("Directory does not exist: " \o value_str)
        ELSE Valid(VStr(value_str))

\* setting.name.lower(), keyword.lower() and setting.description.lower() of
\* each setting, computed once
settings_lower ==
    [ i \in 1..Len(core_settings) |->
        [ name        |-> Lower(core_settings[i].name),
          description |-> Lower(core_settings[i].description),
          keywords    |-> [ k \in 1..Len(core_settings[i].keywords) |->
                              Lower(core_settings[i].keywords[k]) ] ] ]

\* setting i has the term in its name or as one of its keywords
HasTerm(sl, i, term) ==
    \/ Contains(sl[i].name, term)
    \/ SeqHas(sl[i].keywords, term)

\* the alias groups that apply to the name and lead to some setting
AliasGroups(sl, name_lower) ==
    { a \in 1..Len(setting_aliases) :
        /\ \/ SeqHas(setting_aliases[a].aliases, name_lower)
           \/ AnyIn(setting_aliases[a].aliases, name_lower)
        /\ \E i \in 1..Len(sl) : HasTerm(sl, i, setting_aliases[a].main_term) }

\* the settings of the first alias group, none without a group
Aliased(sl, groups) ==
    IF groups = {} THEN {}
    ELSE { i \in 1..Len(sl) : HasTerm(sl, i, setting_aliases[SetMin(groups)].main_term) }

\* the tiers of the search after the one by id: the settings with the name,
\* with the name in theirs, with it in a keyword, and those of an alias
SettingTiers(sl, name_lower) ==
    << { i \in 1..Len(sl) : sl[i].name = name_lower },
       { i \in 1..Len(sl) : Contains(sl[i].name, name_lower) },
       { i \in 1..Len(sl) : AnyContains(sl[i].keywords, name_lower) },
       Aliased(sl, AliasGroups(sl, name_lower)) >>

\* the first setting, in the order of core_settings, of the first tier that has one
FirstOfTiers(settings, tiers) ==
    IF \A k \in 1..Len(tiers) : tiers[k] = {} THEN ""
    ELSE settings[SetMin(tiers[SetMin({ k \in 1..Len(tiers) : tiers[k] # {} })])].id

FindSettingLower(name_lower) ==
    IF name_lower \in SettingIds THEN name_lower
    ELSE FirstOfTiers(core_settings, SettingTiers(settings_lower, name_lower))

\* the id of the setting the name resolves to, "" where the code has None
FindSetting(name) == FindSettingLower(Strip(Lower(name)))

st__extract_context(text) ==
    [ urgency |-> AnyIn(<< "urgent", "now", "immediately", "asap" >>, text),
      scope   |-> IF AnyIn(<< "all", "everything", "global" >>, text) THEN "global"
                  ELSE IF AnyIn(<< "current", "this", "local" >>, text) THEN "local" ELSE "",
      action_type |-> IF AnyIn(<< "backup", "save", "store" >>, text) THEN "backup"
                      ELSE IF AnyIn(<< "restore", "load", "revert" >>, text) THEN "restore" ELSE "" ]

\* groups[0].strip() if groups and groups[0] else None
_determine_setting_target(groups) ==
    IF groups # << >> /\ groups[1].m /\ groups[1].s # ""
    THEN Capture(Strip(groups[1].s))
    ELSE NoCapture

st__extract_intent_and_entities(text) ==
    LET hit == ScanTable(st_intent_patterns, text)
    IN  IF hit.intent = NoIntent
        THEN [ intent |-> NoIntent, groups |-> << >>, context |-> st__extract_context(""),
               setting_target |-> NoCapture ]
        ELSE [ intent |-> hit.intent, groups |-> hit.groups,
               context |-> st__extract_context(text),
               setting_target |-> _determine_setting_target(hit.groups) ]

\* the commands given to the settings manager
StCommands ==
    { "set theme to dark", "Please set the theme to Light", "set theme to purple", "set theme to a",
      "set font size to 1.5", "set font size to 9", "set font size to big",
      "set font size to nan", "set auto save frequency to 2", "set auto save frequency to soon",
      "set ai learning to maybe", "set wallpaper to /tmp/w.png", "set accent color to red",
      "set volume to 5", "default theme", "apply dark profile", "what is the theme setting",
      "settings for appearance", "find font", "list settings", "", "   " }

\* intent and entities of each command, computed once
st_entities == [ c \in StCommands |-> st__extract_intent_and_entities(_preprocess_text(c)) ]

\* the setting names the commands give
StNames ==
    { Strip(e.groups[1].s) : e \in { d \in { st_entities[c] : c \in StCommands } : d.groups # << >> } }

\* the setting each of these names resolves to, computed once
found_settings == [ name \in StNames |-> FindSetting(name) ]

\* _find_setting_by_name, looked up for the names the commands give
_find_setting_by_name(name) == Memo(found_settings, name, FindSetting(name))

\* the category the name resolves to, "" where the code has None
_find_category_by_name(name) ==
    LET name_lower == Strip(Lower(name))
        exact   == { c \in 1..Len(SettingCategory) : SettingCategory[c] = name_lower }
        partial == { c \in 1..Len(SettingCategory) :
                        \/ Contains(SettingCategory[c], name_lower)
                        \/ Contains(name_lower, SettingCategory[c]) }
    IN  IF exact # {} THEN SettingCategory[SetMin(exact)]
        ELSE IF partial # {} THEN SettingCategory[SetMin(partial)]
        ELSE ""

\* the settings with a positive relevance score for the query
_search_settings(query) ==
    LET query_lower == Lower(query)
    IN  { i \in 1..Len(core_settings) :
            \/ Contains(settings_lower[i].name, query_lower)
            \/ Contains(settings_lower[i].description, query_lower)
            \/ AnyContains(settings_lower[i].keywords, query_lower)
            \/ Contains(core_settings[i].category, query_lower)
            \/ Contains(core_settings[i].id, query_lower) }

\* the ids of self.setting_categories[category]
CategorySettings(category) == { i \in 1..Len(core_settings) : core_settings[i].category = category }

_list_category_settings(category) ==
    IF CategorySettings(category) = {}
    THEN "**No settings found in category:** " \o category
    ELSE "**" \o Title(category) \o " Settings** ("
         \o IntToStr(Cardinality(CategorySettings(category))) \o " total):"

\* settings.json: [kind, doc]; doc.settings maps a setting id to the saved
\* current_value (as JSON) and modified_by
NoSettingsDoc == [ settings |-> << >> ]

MissingStore == [ kind |-> "missing", doc |-> NoSettingsDoc ]

GarbageStore == [ kind |-> "garbage", doc |-> NoSettingsDoc ]

\* a save that never reaches the disk
_save_settings_dropped(m) == m

_save_settings(m) ==
    [ m EXCEPT !.file =
        [ kind |-> "json",
          doc  |-> [ settings |-> [ id \in DOMAIN m.settings |->
                                      [ current_value |-> ToJson(m.settings[id].current_value),
                                        modified_by   |-> m.settings[id].modified_by ] ] ] ] ]

_load_settings(m) ==
    IF m.file.kind # "json" THEN m
    ELSE [ m EXCEPT !.settings =
             [ id \in DOMAIN m.settings |->
                 IF id \in DOMAIN m.file.doc.settings
                 THEN [ current_value |-> FromJson(m.file.doc.settings[id].current_value),
                        modified_by   |-> m.file.doc.settings[id].modified_by ]
                 ELSE m.settings[id] ] ]

\* IntelligentSettingsManager(): the constructor, over the file it finds
st___init__(file) == _load_settings([ settings |-> _initialize_core_settings, file |-> file ])

_format_setting_value(m, id) ==
    _format_value_by_type(SettingDef(id).setting_type, m.settings[id].current_value)

\* entities['setting_target'].strip()
StTarget(entities) == Strip(entities.setting_target.s)

\* setting: what _find_setting_by_name gave for the target
GetSettingFound(m, target, setting) ==
    IF target = "" THEN Ret(m, "**Please specify which setting to check**")
    ELSE IF setting = "" THEN Ret(m, "**Setting not found:** '" \o target \o "'")
    ELSE Ret(m, "**" \o SettingDef(setting).name \o ":** " \o _format_setting_value(m, setting))

_handle_get_setting(m, entities) ==
    IF ~entities.setting_target.m THEN Raise(m, NoneStrip)
    ELSE GetSettingFound(m, StTarget(entities), _find_setting_by_name(StTarget(entities)))

\* the answer of a set or reset that stored the value: m1 is the manager saved
SettingStored(m1, setting, done, how) ==
    Ret(m1, "**" \o done \o SettingDef(setting).name \o how \o ":** "
            \o _format_setting_value(m1, setting))

\* the manager with the value as the current value of the setting
WithValue(m, setting, value, modified_by) ==
    [ m EXCEPT !.settings[setting] = [ current_value |-> value, modified_by |-> modified_by ] ]

\* a set that stores the text it was given, whatever its validation gave
SetUnvalidated(m, setting, new_value, validated) ==
    IF validated.exc
    THEN Ret(_save_settings(WithValue(m, setting, VStr(new_value), "user")),
             "**Invalid value:** " \o validated.msg)
    ELSE SettingStored(_save_settings(WithValue(m, setting, VStr(new_value), "user")),
                       setting, "Updated ", "")

SetNamedUnvalidated(m, setting_name, new_value, setting, path_exists) ==
    IF setting = "" THEN Ret(m, "**Setting not found:** '" \o setting_name \o "'")
    ELSE SetUnvalidated(m, setting, new_value,
                        _validate_and_convert_value(SettingDef(setting), new_value, path_exists))

\* a set handler that stores the text it was given before it validates it
_handle_set_setting_unvalidated(m, entities, path_exists) ==
    IF Len(entities.groups) < 2 THEN Ret(m, "**Please specify setting name and value**")
    ELSE SetNamedUnvalidated(m, Strip(entities.groups[1].s), Strip(entities.groups[2].s),
                             _find_setting_by_name(Strip(entities.groups[1].s)), path_exists)

\* validated: what _validate_and_convert_value gave for the new value
SetValidated(m, setting, validated) ==
    IF validated.exc THEN Ret(m, "**Invalid value:** " \o validated.msg)
    ELSE SettingStored(_save_settings(WithValue(m, setting, validated.v, "user")),
                       setting, "Updated ", "")

\* setting: what _find_setting_by_name gave for the name
SetNamed(m, setting_name, new_value, setting, path_exists) ==
    IF setting = "" THEN Ret(m, "**Setting not found:** '" \o setting_name \o "'")
    ELSE SetValidated(m, setting,
                      _validate_and_convert_value(SettingDef(setting), new_value, path_exists))

_handle_set_setting(m, entities, path_exists) ==
    IF Len(entities.groups) < 2 THEN Ret(m, "**Please specify setting name and value**")
    ELSE IF ~entities.groups[1].m \/ ~entities.groups[2].m THEN Raise(m, NoneStrip)
    ELSE SetNamed(m, Strip(entities.groups[1].s), Strip(entities.groups[2].s),
                  _find_setting_by_name(Strip(entities.groups[1].s)), path_exists)

\* setting: what _find_setting_by_name gave for the target
ResetFound(m, target, setting) ==
    IF target = "" THEN Ret(m, "**Please specify which setting to reset**")
    ELSE IF setting = "" THEN Ret(m, "**Setting not found:** '" \o target \o "'")
    ELSE SettingStored(_save_settings(WithValue(m, setting, SettingDef(setting).default_value,
                                                "system")),
                       setting, "Reset ", " to default")

_handle_reset_setting(m, entities) ==
    IF ~entities.setting_target.m THEN Raise(m, NoneStrip)
    ELSE ResetFound(m, StTarget(entities), _find_setting_by_name(StTarget(entities)))

_handle_list_settings(m, entities) ==
    IF ~entities.setting_target.m THEN Raise(m, NoneStrip)
    ELSE
    LET target   == Strip(entities.setting_target.s)
        category == _find_category_by_name(target)
    IN  IF target = "" \/ target \in { "all", "everything" }
        THEN Ret(m, "**PersonalAIOS Settings Overview**")
        ELSE IF category # "" THEN Ret(m, _list_category_settings(category))
        ELSE IF _search_settings(target) = {}
        THEN Ret(m, "**No settings found matching:** '" \o target \o "'")
        ELSE Ret(m, "**Settings matching '" \o target \o "':**")

_handle_search_settings(m, entities) ==
    IF ~entities.setting_target.m THEN Raise(m, NoneStrip)
    ELSE
    LET query   == Strip(entities.setting_target.s)
        results == _search_settings(query)
    IN  IF query = "" THEN Ret(m, "**Please specify what to search for**")
        ELSE IF results = {} THEN Ret(m, "**No settings found for:** '" \o query \o "'")
        ELSE Ret(m, "**Found " \o IntToStr(Cardinality(results)) \o " setting(s) for '" \o query \o "':**")

_handle_category_settings(m, entities) ==
    IF ~entities.setting_target.m THEN Raise(m, NoneStrip)
    ELSE
    LET target   == Strip(entities.setting_target.s)
        category == _find_category_by_name(target)
    IN  IF target = "" THEN Ret(m, "**Please specify a settings category**")
        ELSE IF category = "" THEN Ret(m, "**Category not found:** '" \o target \o "'")
        ELSE Ret(m, _list_category_settings(category))

\* setting: what _find_setting_by_name gave for the target
SettingInfoFound(m, target, setting) ==
    IF target = "" THEN Ret(m, "**Please specify which setting you need info about**")
    ELSE IF setting = "" THEN Ret(m, "**Setting not found:** '" \o target \o "'")
    ELSE Ret(m, "**Setting Information: " \o SettingDef(setting).name \o "**")

_handle_setting_info(m, entities) ==
    IF ~entities.setting_target.m THEN Raise(m, NoneStrip)
    ELSE SettingInfoFound(m, StTarget(entities), _find_setting_by_name(StTarget(entities)))

\* the built-in profiles of _handle_apply_profile
profiles ==
    << [ key |-> "dark_mode",
         values |-> << << "theme_mode", VStr("dark") >>, << "high_contrast", VBool(FALSE) >>,
                       << "animation_speed", VStr("normal") >> >> ],
       [ key |-> "light_mode",
         values |-> << << "theme_mode", VStr("light") >>, << "high_contrast", VBool(FALSE) >>,
                       << "animation_speed", VStr("normal") >> >> ],
       [ key |-> "accessibility",
         values |-> << << "large_text", VBool(TRUE) >>, << "high_contrast", VBool(TRUE) >>,
                       << "animation_speed", VStr("slow") >>, << "font_size", VFloat(125) >> >> ],
       [ key |-> "performance",
         values |-> << << "animation_speed", VStr("fast") >>, << "system_sounds", VBool(FALSE) >>,
                       << "ai_suggestions", VBool(FALSE) >>, << "usage_statistics", VBool(FALSE) >> >> ],
       [ key |-> "privacy_focused",
         values |-> << << "usage_statistics", VBool(FALSE) >>, << "location_services", VBool(FALSE) >>,
                       << "ai_learning_enabled", VBool(FALSE) >> >> ],
       [ key |-> "default",
         values |-> << << "theme_mode", VStr("auto") >>, << "ai_natural_language", VBool(TRUE) >>,
                       << "ai_learning_enabled", VBool(TRUE) >>, << "ai_suggestions", VBool(TRUE) >>,
                       << "animation_speed", VStr("normal") >> >> ] >>

RECURSIVE ApplyProfile(_, _, _)
\* the loop over profile.items()
ApplyProfile(settings, values, profile_key) ==
    IF values = << >> THEN settings
    ELSE LET id == Head(values)[1]
         IN  ApplyProfile(IF id \in DOMAIN settings
                          THEN [ settings EXCEPT ![id] = [ current_value |-> Head(values)[2],
                                                            modified_by   |-> "profile:" \o profile_key ] ]
                          ELSE settings,
                          Tail(values), profile_key)

\* each word of s with its first letter in upper case
TitleWords(s) ==
    LET w == SplitWords(s) IN Join(" ", [ i \in 1..Len(w) |-> Title(w[i]) ])

_handle_apply_profile(m, entities) ==
    IF ~entities.setting_target.m THEN Raise(m, NoneStrip)
    ELSE
    LET profile_name == Strip(entities.setting_target.s)
        found == { p \in 1..Len(profiles) :
                     \/ Contains(profiles[p].key, Lower(profile_name))
                     \/ Contains(Lower(profile_name), profiles[p].key) }
        profile == profiles[SetMin(found)]
        m1 == _save_settings([ m EXCEPT !.settings = ApplyProfile(m.settings, profile.values, profile.key) ])
    IN  IF profile_name = "" THEN Ret(m, "**Please specify which profile to apply**")
        ELSE IF found = {} THEN Ret(m, "**Profile not found:** '" \o profile_name \o "'")
        ELSE Ret(m1, "**Applied " \o TitleWords(StrReplace(profile.key, "_", " ")) \o " profile**")

st__handle_unknown_intent(user_input) ==
    "**I didn't understand:** \"" \o user_input \o "\"\n\n"
    \o "**Try these natural language settings commands:**"

\* the handler's outcome; an exception it raises is turned into a string.
\* The backup and restore handlers, which work on the files under backups/,
\* are not part of the model, and no command of StCommands reaches them.
_execute_settings_intent(m, intent, entities, path_exists) ==
    Caught(CASE intent = "get_setting"       -> _handle_get_setting(m, entities)
             [] intent = "set_setting"       -> _handle_set_setting(m, entities, path_exists)
             [] intent = "reset_setting"     -> _handle_reset_setting(m, entities)
             [] intent = "list_settings"     -> _handle_list_settings(m, entities)
             [] intent = "search_settings"   -> _handle_search_settings(m, entities)
             [] intent = "category_settings" -> _handle_category_settings(m, entities)
             [] intent = "setting_info"      -> _handle_setting_info(m, entities)
             [] intent = "apply_profile"     -> _handle_apply_profile(m, entities),
           "**Settings management error:** ")

\* process_command once the intent and the entities are extracted
st_route(m, user_input, entities, path_exists) ==
    IF entities.intent = NoIntent
    THEN Ret(m, st__handle_unknown_intent(user_input))
    ELSE _execute_settings_intent(m, entities.intent, entities, path_exists)

st_process_command(m, user_input, path_exists) ==
    st_route(m, user_input, st__extract_intent_and_entities(_preprocess_text(user_input)),
             path_exists)

(***************************************************************************)
(* The settings manager as a state machine.                                *)
(*   st         the manager: [settings, file], file being settings.json    *)
(*   st_input   the last command given to process_command                  *)
(*   st_result  the string process_command returned for it                 *)
(*   st_op      what the last step was: "init", "command", "restart",      *)
(*              "lost" or "garbled"                                        *)
(*   st_before  the manager as it was before the last step                 *)
(*   st_path_exists  whether the path the last command named existed       *)
(***************************************************************************)
VARIABLES st, st_input, st_result, st_op, st_before, st_path_exists

stVars == << st, st_input, st_result, st_op, st_before, st_path_exists >>

StInit ==
    /\ st = st___init__(MissingStore)
    /\ st_input = ""
    /\ st_result = ""
    /\ st_op = "init"
    /\ st_before = st___init__(MissingStore)
    /\ st_path_exists = FALSE

\* process_command(user_input)
\* the command sets a setting whose value is a path
StNamesPath(entities) ==
    /\ entities.intent = "set_setting"
    /\ \E id \in { _find_setting_by_name(entities.groups[1].s) } :
          id # "" /\ SettingDef(id).setting_type \in { "file", "directory" }

StProcessCommand(user_input, path_exists) ==
    \E entities \in { st_entities[user_input] } :
    \E r \in { st_route(st, user_input, entities, path_exists) } :
        /\ path_exists => StNamesPath(entities)
        /\ st' = r.m
        /\ st_input' = user_input
        /\ st_result' = r.out
        /\ st_op' = "command"
        /\ st_before' = st
        /\ st_path_exists' = path_exists

\* the process ends and a new manager is constructed over the same file
StRestart ==
    /\ st' = st___init__(st.file)
    /\ st_op' = "restart"
    /\ st_before' = st
    /\ UNCHANGED << st_input, st_result, st_path_exists >>

\* the store is deleted
StFileLost ==
    /\ st.file.kind # "missing"
    /\ st' = [ st EXCEPT !.file = MissingStore ]
    /\ st_op' = "lost"
    /\ st_before' = st
    /\ UNCHANGED << st_input, st_result, st_path_exists >>

\* the store is overwritten with bytes that are not JSON
StFileGarbled ==
    /\ st.file.kind # "garbage"
    /\ st' = [ st EXCEPT !.file = GarbageStore ]
    /\ st_op' = "garbled"
    /\ st_before' = st
    /\ UNCHANGED << st_input, st_result, st_path_exists >>

\* C4: after the command "set theme to dark" theme_mode is 'dark', and a
\* freshly constructed settings manager loads 'dark' for theme_mode
C4_SetThemeDark ==
    (st_op = "command" /\ st_input = "set theme to dark")
        => /\ st.settings["theme_mode"].current_value = VStr("dark")
           /\ st___init__(st.file).settings["theme_mode"].current_value = VStr("dark")

\* the command was given while theme_mode was not 'dark' and nothing was stored
C4_Witness ==
    /\ st_op = "command"
    /\ st_input = "set theme to dark"
    /\ st_before.settings["theme_mode"].current_value = VStr("auto")
    /\ st_before.file.kind = "missing"
    /\ st.file.kind = "json"

\* the last step was a set-setting command that names a setting and gives a
\* value that _validate_and_convert_value rejects
StSetRejected ==
    /\ st_op = "command"
    /\ st_entities[st_input].intent = "set_setting"
    /\ Len(st_entities[st_input].groups) = 2
    /\ _find_setting_by_name(Strip(st_entities[st_input].groups[1].s)) # ""
    /\ _validate_and_convert_value(
          SettingDef(_find_setting_by_name(Strip(st_entities[st_input].groups[1].s))),
          Strip(st_entities[st_input].groups[2].s), st_path_exists).exc

\* C9: a set-setting command whose value fails validation is answered with
\* an error string and leaves every current value and the store unchanged
C9_InvalidValueRejected ==
    StSetRejected
        => /\ StartsWith(st_result, "**Invalid value:**")
           /\ st.settings = st_before.settings
           /\ st.file = st_before.file

\* an out-of-range number is rejected after another value had been stored
C9_Witness ==
    /\ StSetRejected
    /\ st_input = "set font size to 9"
    /\ st.file.kind = "json"
    /\ st.settings["font_size"].current_value = VFloat(150)

\* C1 (settings manager): whenever the store is the manager's saved state, a
\* manager constructed over that store has the same settings
C1_SettingsRoundTrip ==
    (st.file.kind = "json" /\ st.file = _save_settings(st).file)
        => st___init__(st.file).settings = st.settings

\* C10 (settings manager): a manager constructed over a missing or
\* unreadable store has every setting at its default
C10_SettingsFreshStart ==
    (st_op = "restart" /\ st.file.kind \in { "missing", "garbage" })
        => st.settings = _initialize_core_settings

(***************************************************************************)
(* application_launcher.py: IntelligentApplicationLauncher                 *)
(*                                                                         *)
(* self.applications is a dict in discovery order: a sequence of           *)
(* SmartApplication records.  self.command_history is kept as its length.  *)
(* A response is modelled by its first line, without the icons.            *)
(***************************************************************************)
\* SmartApplication(id, name, description, executable, categories, keywords,
\* desktop_file), usage_count 0
SmartApplication(id, name, description, executable, categories, keywords, desktop_file) ==
    [id |-> id, name |-> name, description |-> description, executable |-> executable,
     categories |-> categories, keywords |-> keywords, desktop_file |-> desktop_file,
     usage_count |-> 0]

\* re.sub(r'[^a-zA-Z0-9_-]', '_', name.lower())
RECURSIVE BaseId(_)
BaseId(name_lower) ==
    IF name_lower = "" THEN ""
    ELSE (IF Head(name_lower) \in (LowerSet \cup UpperSet \cup DigitSet \cup {"_", "-"})
          THEN Head(name_lower) ELSE "_") \o BaseId(Tail(name_lower))

AppIds(applications) == { applications[i].id : i \in 1..Len(applications) }

RECURSIVE UniqueIdFrom(_, _, _)
UniqueIdFrom(applications, base_id, counter) ==
    IF (base_id \o "_" \o NatToStr(counter)) \in AppIds(applications)
    THEN UniqueIdFrom(applications, base_id, counter + 1)
    ELSE base_id \o "_" \o NatToStr(counter)

_generate_unique_id(applications, name) ==
    LET base_id == BaseId(Lower(name))
    IN  IF base_id \in AppIds(applications)
        THEN UniqueIdFrom(applications, base_id, 1)
        ELSE base_id

\* the default configuration written by _initialize_dynamic_config
fuzzy_matching_threshold == [num |-> 6, den |-> 10]

\* test_commands of _discover_launch_methods, in their order
test_commands == << "gtk-launch", "xdg-open", "gio", "kioclient5", "exo-open" >>

RECURSIVE SeqFilterIn(_, _)
\* [x for x in s if x in S]
SeqFilterIn(s, S) ==
    IF s = << >> THEN << >>
    ELSE (IF Head(s) \in S THEN << Head(s) >> ELSE << >>) \o SeqFilterIn(Tail(s), S)

\* the utilities that shutil.which finds, then direct execution
_discover_launch_methods(installed) ==
    Append(SeqFilterIn(test_commands, installed), "direct_execution")

\* the fillers _preprocess_input removes, in its order (each as \bfiller\b)
al_filler_words == << "please", "can you", "would you", "could you", "i want to", "help me" >>

RECURSIVE RemoveFillers(_, _)
RemoveFillers(fillers, text) ==
    IF fillers = << >> THEN text
    ELSE RemoveFillers(Tail(fillers),
                       ReSub(RCat(<< RWb, RLit(Head(fillers)), RWb >>), "", text, TRUE))

_preprocess_input(text) ==
    Lower(Strip(ReSub(whitespace_run, " ", RemoveFillers(al_filler_words, text), FALSE)))

\* the intent of the first pattern, in table order, that matches, and its
\* group 1 as target
\* r: the first pattern of the table that matches the text
AlEntities(r, text) ==
    [intent |-> r.intent,
     target |-> IF r.intent # NoIntent /\ Len(r.groups) >= 1 THEN r.groups[1] ELSE NoCapture,
     original_text |-> text]

_extract_intent_dynamically(text) == AlEntities(ScanTable(al_patterns, text), text)

\* a similarity score as a fraction
Score(num, den) == [num |-> num, den |-> den]

ScoreLess(a, b) == a.num * b.den < b.num * a.den

_calculate_similarity(str1, str2) ==
    IF str1 = str2 THEN Score(1, 1)
    ELSE IF Contains(str2, str1) \/ Contains(str1, str2) THEN Score(8, 10)
    ELSE LET set1 == CharsOf(str1)
             set2 == CharsOf(str2)
             union == Cardinality(set1 \cup set2)
         IN  IF union > 0 THEN Score(Cardinality(set1 \cap set2), union) ELSE Score(0, 1)

RECURSIVE BestFuzzy(_, _, _, _, _)
\* the loop of the fuzzy tier: best is 0 for None, else the index of best_app
BestFuzzy(applications, query_lower, i, best, best_score) ==
    IF i > Len(applications) THEN best
    ELSE LET score == _calculate_similarity(query_lower, Lower(applications[i].name))
         IN  IF ScoreLess(best_score, score) /\ ~ScoreLess(score, fuzzy_matching_threshold)
             THEN BestFuzzy(applications, query_lower, i + 1, i, score)
             ELSE BestFuzzy(applications, query_lower, i + 1, best, best_score)

\* _find_app_fuzzy: the index in applications of the application found, 0 for
\* None
FindApp(applications, query) ==
    LET query_lower == Strip(Lower(query))
        n == Len(applications)
        exact   == { i \in 1..n : Lower(applications[i].name) = query_lower }
        partial == { i \in 1..n : Contains(Lower(applications[i].name), query_lower) }
        keyword == { i \in 1..n :
                        \E k \in 1..Len(applications[i].keywords) :
                            Contains(Lower(applications[i].keywords[k]), query_lower) }
    IN  IF exact # {} THEN SetMin(exact)
        ELSE IF partial # {} THEN SetMin(partial)
        ELSE IF keyword # {} THEN SetMin(keyword)
        ELSE BestFuzzy(applications, query_lower, 1, 0, Score(0, 1))

MaxApps == 2

\* the desktop entries a scan can meet
DesktopEntries ==
    { [name |-> "Code", description |-> "", executable |-> "code-oss %F",
       categories |-> << >>, keywords |-> << >>, desktop_file |-> "code-oss.desktop"],
      [name |-> "code", description |-> "", executable |-> "code %F",
       categories |-> << >>, keywords |-> << >>, desktop_file |-> "code.desktop"],
      [name |-> "Visual Studio Code", description |-> "Code editing", executable |-> "vscode",
       categories |-> << "Development" >>, keywords |-> << "editor" >>,
       desktop_file |-> "vscode.desktop"],
      [name |-> "Firefox", description |-> "Executable program: firefox",
       executable |-> "/usr/bin/firefox", categories |-> << "System", "Utility" >>,
       keywords |-> << "firefox", "browser" >>, desktop_file |-> "None"] }

\* the scans: up to MaxApps different entries in any order
EntryLists ==
    UNION { { s \in [1..n -> DesktopEntries] : \A i, j \in 1..n : i # j => s[i] # s[j] }
            : n \in 0..MaxApps }

AlCommands ==
    { "list applications", "", "   ", "open code", "Please open Firefox", "open studio",
      "start fire fox browser", "show my apps", "open browser", "open xyz" }

al_entities == [ c \in AlCommands |-> _extract_intent_dynamically(_preprocess_input(c)) ]

RECURSIVE Discover(_, _)
\* self.applications[app.id] = app for every entry of the scan
Discover(entries, applications) ==
    IF entries = << >> THEN applications
    ELSE LET e == Head(entries)
         IN  Discover(Tail(entries),
                      Append(applications,
                             SmartApplication(_generate_unique_id(applications, e.name),
                                              e.name, e.description, e.executable,
                                              e.categories, e.keywords, e.desktop_file)))

\* the queries the commands of AlCommands lead to
AlQueriesOf(entities) ==
    { Strip(entities[c].target.s) : c \in { d \in DOMAIN entities : entities[d].target.m } }
    \cup { c \in DOMAIN entities : entities[c].intent = NoIntent }

AlQueries == AlQueriesOf(al_entities)

\* _find_app_fuzzy over the scans and queries of the model, computed once
found_apps ==
    [ a \in { Discover(e, << >>) : e \in EntryLists } |->
        [ q \in AlQueries |-> FindApp(a, q) ] ]

Unused(applications) ==
    [ i \in 1..Len(applications) |-> [applications[i] EXCEPT !.usage_count = 0] ]

_find_app_fuzzy(applications, query) ==
    Memo(Memo(found_apps, Unused(applications), << >>), query, FindApp(applications, query))

\* _try_launch_method: Popen of a utility or of the executable raises, and
\* the method fails, unless it is one of the working ones; a utility is used
\* only for an application that has a desktop file
_try_launch_method(app, method, working) ==
    IF method \in {"gtk-launch", "xdg-open", "gio"} /\ app.desktop_file # "None"
    THEN method \in working
    ELSE IF method = "direct_execution"
    THEN method \in working
    ELSE FALSE

\* a loop that goes on after a method has succeeded
LastLaunched(rest, ok, method) ==
    IF rest.via # "None" THEN rest
    ELSE IF ok THEN [tried |-> rest.tried, via |-> method]
    ELSE rest

RECURSIVE TryEveryMethod(_, _, _, _)
TryEveryMethod(app, methods, working, tried) ==
    IF methods = << >> THEN [tried |-> tried, via |-> "None"]
    ELSE LastLaunched(TryEveryMethod(app, Tail(methods), working, Append(tried, Head(methods))),
                      _try_launch_method(app, Head(methods), working), Head(methods))

RECURSIVE TryMethods(_, _, _, _)
\* the loop over self.launch_methods: the methods tried, and the one that
\* launched ("None": every method failed)
TryMethods(app, methods, working, tried) ==
    IF methods = << >> THEN [tried |-> tried, via |-> "None"]
    ELSE IF _try_launch_method(app, Head(methods), working)
         THEN [tried |-> Append(tried, Head(methods)), via |-> Head(methods)]
         ELSE TryMethods(app, Tail(methods), working, Append(tried, Head(methods)))

\* what process_command gives back: the launcher and its files after it, the
\* string returned (or the exception raised), the application started and
\* the launch methods tried
AlRet(m, fs, out) ==
    [m |-> m, fs |-> fs, exc |-> FALSE, out |-> out, app |-> "None", tried |-> << >>]

AlRaise(m, fs, msg) ==
    [m |-> m, fs |-> fs, exc |-> TRUE, out |-> msg, app |-> "None", tried |-> << >>]

\* usage_stats.json after stats[app.id] = {...}
_save_usage_stats(fs, app) ==
    [fs EXCEPT !.stats = DictSet(fs.stats, app.id, app.usage_count)]

\* app: the application with its use counted; l: how the methods went
LaunchTried(m, fs, i, app, l) ==
    [m |-> [m EXCEPT !.applications[i] = app], fs |-> _save_usage_stats(fs, app), exc |-> FALSE,
     out |-> IF l.via # "None"
             THEN "**Launched " \o app.name \o "**"
             ELSE "**Cannot launch " \o app.name \o "**",
     app |-> IF l.via # "None" THEN app.id ELSE "None",
     tried |-> l.tried]

LaunchCounted(m, fs, i, app, working) ==
    LaunchTried(m, fs, i, app, TryMethods(app, m.launch_methods, working, << >>))

_launch_application(m, fs, i, working) ==
    LaunchCounted(m, fs, i, [m.applications[i] EXCEPT !.usage_count = @ + 1], working)

_get_launch_help == "**Application Launcher Help**"

_generate_help_response(user_input) ==
    "**I didn't understand:** \"" \o user_input \o "\"\n\n" \o _get_launch_help

\* the applications that score above 0.3 against the query
_find_similar_apps(applications, query) ==
    { i \in 1..Len(applications) :
        ScoreLess(Score(3, 10), _calculate_similarity(Lower(query), Lower(applications[i].name))) }

\* with or without suggestions the response opens with the same line
_format_suggestions(query) == "**Application not found:** '" \o query \o "'"

\* i: what _find_app_fuzzy gave for the target
LaunchFound(m, fs, target, i, working) ==
    IF target = "" THEN AlRet(m, fs, _get_launch_help)
    ELSE IF i # 0 THEN _launch_application(m, fs, i, working)
    ELSE IF _find_similar_apps(m.applications, target) # {}
    THEN AlRet(m, fs, _format_suggestions(target))
    ELSE AlRet(m, fs, "**Application not found:** '" \o target \o "'")

_handle_launch(m, fs, entities, working) ==
    IF ~entities.target.m
    THEN AlRaise(m, fs, "'NoneType' object has no attribute 'strip'")
    ELSE LaunchFound(m, fs, Strip(entities.target.s),
                     _find_app_fuzzy(m.applications, Strip(entities.target.s)), working)

\* the applications _search_applications scores above 0
_search_applications(applications, query) ==
    LET query_lower == Lower(query)
    IN  { i \in 1..Len(applications) :
            \/ Contains(Lower(applications[i].name), query_lower)
            \/ Contains(Lower(applications[i].description), query_lower)
            \/ \E k \in 1..Len(applications[i].keywords) :
                   Contains(Lower(applications[i].keywords[k]), query_lower)
            \/ \E k \in 1..Len(applications[i].categories) :
                   Contains(Lower(applications[i].categories[k]), query_lower)
            \/ Contains(Lower(applications[i].executable), query_lower)
            \/ applications[i].usage_count > 0 }

\* results: what _search_applications gave for the query
SearchFound(m, fs, query, results) ==
    IF query = "" THEN AlRet(m, fs, "**Please specify what to search for**")
    ELSE IF results = {}
    THEN AlRet(m, fs, "**No applications found** for '" \o query \o "'")
    ELSE AlRet(m, fs, "**Found " \o NatToStr(Cardinality(results))
                      \o " application(s)** for '" \o query \o "':")

_handle_search(m, fs, entities) ==
    IF ~entities.target.m
    THEN AlRaise(m, fs, "'NoneType' object has no attribute 'strip'")
    ELSE SearchFound(m, fs, Strip(entities.target.s),
                     _search_applications(m.applications, Strip(entities.target.s)))

_handle_list(m, fs) ==
    IF m.applications = << >>
    THEN AlRet(m, fs, "**No applications discovered**")
    ELSE AlRet(m, fs, "**Installed Applications** (" \o NatToStr(Len(m.applications))
                      \o " total):")

\* command_history after the append: over 1000 entries the last 500 are kept
_log_command(m) ==
    [m EXCEPT !.command_history = IF @ + 1 > 1000 THEN 500 ELSE @ + 1]

\* the routing of process_command once the intent is extracted
\* without intent: the whole input is looked up as an application (i)
AlFallback(m1, fs, user_input, i, working) ==
    IF i # 0 THEN _launch_application(m1, fs, i, working)
    ELSE AlRet(m1, fs, _generate_help_response(user_input))

\* m1: the launcher with the command logged
AlLogged(m1, fs, user_input, entities, working) ==
    CASE entities.intent = "launch" -> _handle_launch(m1, fs, entities, working)
      [] entities.intent = "search" -> _handle_search(m1, fs, entities)
      [] entities.intent = "list"   -> _handle_list(m1, fs)
      [] OTHER -> AlFallback(m1, fs, user_input, _find_app_fuzzy(m1.applications, user_input),
                             working)

al_route(m, fs, user_input, entities, working) ==
    AlLogged(_log_command(m), fs, user_input, entities, working)

al_process_command(m, fs, user_input, working) ==
    al_route(m, fs, user_input, _extract_intent_dynamically(_preprocess_input(user_input)),
             working)

(***************************************************************************)
(* The application launcher as a state machine.  al_fs is what the         *)
(* launcher finds on the machine: the desktop entries in scan order, the   *)
(* launch utilities on PATH and usage_stats.json.                          *)
(***************************************************************************)
VARIABLES al, al_fs, al_input, al_result, al_op

alVars == << al, al_fs, al_input, al_result, al_op >>

MaxCommandLog == 3

InstalledSets == { {}, {"gtk-launch", "exo-open"} }

\* app.usage_count = data['usage_count'] for the applications in the stats
_load_usage_history(applications, stats) ==
    [ i \in 1..Len(applications) |->
        IF DictHas(stats, applications[i].id)
        THEN [applications[i] EXCEPT !.usage_count = DictGet(stats, applications[i].id)]
        ELSE applications[i] ]

al___init__(fs) ==
    [applications    |-> _load_usage_history(Discover(fs.entries, << >>), fs.stats),
     launch_methods  |-> _discover_launch_methods(fs.installed),
     command_history |-> 0]

NoResult == [exc |-> FALSE, out |-> "", app |-> "None", tried |-> << >>]

AlInit ==
    /\ al_fs \in { [entries |-> e, installed |-> i, stats |-> << >>]
                   : e \in EntryLists, i \in InstalledSets }
    /\ al = al___init__(al_fs)
    /\ al_input = ""
    /\ al_result = NoResult
    /\ al_op = "init"

\* the launcher of a machine without applications, left alone
AlIdle ==
    /\ al_fs = [entries |-> << >>, installed |-> {}, stats |-> << >>]
    /\ al = al___init__(al_fs)
    /\ al_input = ""
    /\ al_result = NoResult
    /\ al_op = "init"

AlWithinBounds(m) ==
    /\ m.command_history <= MaxCommandLog
    /\ \A i \in 1..Len(m.applications) : m.applications[i].usage_count <= MaxUsage

\* process_command(user_input); working: the launch methods whose Popen
\* succeeds this time
AlProcessCommand(user_input, working) ==
    \E r \in { al_route(al, al_fs, user_input, al_entities[user_input], working) } :
        /\ working \subseteq { al.launch_methods[k] : k \in 1..Len(al.launch_methods) }
        /\ r.tried = << >> => working = {}
        /\ AlWithinBounds(r.m)
        /\ al' = r.m
        /\ al_fs' = r.fs
        /\ al_input' = user_input
        /\ al_result' = [exc |-> r.exc, out |-> r.out, app |-> r.app, tried |-> r.tried]
        /\ al_op' = "command"

\* the launcher is constructed again over the same machine
AlRestart ==
    /\ al_op # "init"
    /\ al' = al___init__(al_fs)
    /\ al_input' = ""
    /\ al_result' = NoResult
    /\ al_op' = "init"
    /\ UNCHANGED al_fs

(***************************************************************************)
(* Claims about the application launcher                                   *)
(***************************************************************************)
AlBlankCommand == al_op = "command" /\ Strip(al_input) = ""

\* C2: an empty or whitespace-only command resolves to no intent and returns
\* the help text without raising, whatever applications the launcher holds:
\* nothing is launched and the response is the help response.
C2_BlankCommandHelp ==
    AlBlankCommand
        => /\ al_entities[al_input].intent = NoIntent
           /\ ~al_result.exc
           /\ al_result.out = _generate_help_response(al_input)
           /\ al_result.tried = << >>

\* C5: "list applications" given to a launcher that holds no application
\* returns the string saying that no applications were discovered, and
\* raises nothing.
C5_ListNoApplications ==
    (al_op = "command" /\ al_input = "list applications" /\ al.applications = << >>)
        => /\ ~al_result.exc
           /\ StartsWith(al_result.out, "**No applications discovered**")

\* the target of the latest command, when it was a launch command
AlLaunchTarget == Strip(al_entities[al_input].target.s)

AlNamed(name) == { i \in 1..Len(al.applications) : al.applications[i].name = name }

\* C7 (applications): when an application whose name equals the requested
\* target exists, the launch command resolves to that application, also
\* when an application examined earlier matches the target less exactly.
C7_ExactAppPreferred ==
    (/\ al_op = "command"
     /\ al_entities[al_input].intent = "launch"
     /\ AlNamed(AlLaunchTarget) # {})
        => al_result.out \in { "**Launched " \o AlLaunchTarget \o "**",
                               "**Cannot launch " \o AlLaunchTarget \o "**" }

(***************************************************************************)
(* ai_file_manager.py: IntelligentFileManager                              *)
(*                                                                         *)
(* The file system below the home directory is a sequence, in listing      *)
(* order, of entries [path, is_dir, text]; a path is the sequence of names *)
(* from the home directory, << >> the home directory itself.  Names in     *)
(* commands hold no "/" and no glob character.  copy_file and move_file    *)
(* are not modelled: no command of FmCommands resolves to them.            *)
(***************************************************************************)
\* ' '.join(text.split()), four str.replace, then lower().strip()
fm__preprocess_text(text) ==
    Strip(Lower(StrReplace(StrReplace(StrReplace(StrReplace(
        Join(" ", SplitWords(text)),
        "i'd like to", ""), "can you", ""), "please", ""), "would you", "")))

context_keywords ==
    [urgency  |-> << "urgent", "quickly", "asap", "now", "immediately" >>,
     size     |-> << "large", "big", "small", "tiny", "huge" >>,
     type     |-> << "document", "image", "video", "audio", "text", "script" >>,
     location |-> << "desktop", "documents", "downloads", "home" >>]

RECURSIVE KeywordsIn(_, _)
\* [kw for kw in keywords if kw in text]
KeywordsIn(keywords, text) ==
    IF keywords = << >> THEN << >>
    ELSE (IF Contains(text, Head(keywords)) THEN << Head(keywords) >> ELSE << >>)
         \o KeywordsIn(Tail(keywords), text)

\* a category without a keyword in the text is absent from the dict: << >>
fm__extract_context(text) ==
    [ category \in DOMAIN context_keywords |-> KeywordsIn(context_keywords[category], text) ]

fm__extract_intent_and_entities(text) ==
    LET r == ScanTable(fm_intent_patterns, text)
    IN  [intent |-> r.intent, groups |-> r.groups,
         context |-> IF r.intent = NoIntent
                     THEN [ category \in DOMAIN context_keywords |-> << >> ]
                     ELSE fm__extract_context(text)]

RECURSIVE DropChars(_, _)
\* re.sub of a class of single characters by ''
DropChars(s, chars) ==
    IF s = "" THEN ""
    ELSE (IF Head(s) \in chars THEN "" ELSE Head(s)) \o DropChars(Tail(s), chars)

InvalidFileChars == { "<", ">", ":", "\"", "/", "\\", "|", "?", "*" }

_clean_filename(filename) ==
    LET f1 == IF StartsWith(filename, "a ") THEN SubSeq(filename, 3, Len(filename))
              ELSE IF StartsWith(filename, "an ") THEN SubSeq(filename, 4, Len(filename))
              ELSE IF StartsWith(filename, "the ") THEN SubSeq(filename, 5, Len(filename))
              ELSE filename
    IN  Strip(DropChars(f1, InvalidFileChars))

FsEntry(path, is_dir, text) == [path |-> path, is_dir |-> is_dir, text |-> text]

FsPaths(fs) == { fs[i].path : i \in 1..Len(fs) }

\* Path.exists()
FsExists(fs, path) == path = << >> \/ path \in FsPaths(fs)

FsIndex(fs, path) == CHOOSE i \in 1..Len(fs) : fs[i].path = path

\* Path.is_dir()
FsIsDir(fs, path) == path = << >> \/ (path \in FsPaths(fs) /\ fs[FsIndex(fs, path)].is_dir)

\* Path.name
PathName(path) == IF path = << >> THEN "home" ELSE path[Len(path)]

\* str(path)
PathStr(path) == "~" \o Join("", [ i \in 1..Len(path) |-> "/" \o path[i] ])

\* directory.iterdir(): the indices of its entries, in listing order
FsIterdir(fs, directory) ==
    { i \in 1..Len(fs) : /\ Len(fs[i].path) = Len(directory) + 1
                         /\ SubSeq(fs[i].path, 1, Len(directory)) = directory }

\* directory.rglob(...): the indices of everything below it
FsBelow(fs, directory) ==
    { i \in 1..Len(fs) : /\ Len(fs[i].path) > Len(directory)
                         /\ SubSeq(fs[i].path, 1, Len(directory)) = directory }

\* what a handler gives back: the manager and the file system after it and
\* the string returned
FmRet(m, fs, out) == [m |-> m, fs |-> fs, out |-> out]

\* the found path, or None
Found(path) == [found |-> TRUE, path |-> path]

NotFound == [found |-> FALSE, path |-> << >>]

_resolve_path(m, fs, filename) ==
    LET direct_path == Append(m.current_directory, filename)
        items    == FsIterdir(fs, m.current_directory)
        caseless == { i \in items : Lower(PathName(fs[i].path)) = Lower(filename) }
        matches  == { i \in items : Contains(PathName(fs[i].path), filename) }
    IN  IF FsExists(fs, direct_path) THEN Found(direct_path)
        ELSE IF caseless # {} THEN Found(fs[SetMin(caseless)].path)
        ELSE IF matches # {} THEN Found(fs[SetMin(matches)].path)
        ELSE NotFound

\* _add_template_content: the text written for the first matching type
_add_template_content(content_type) ==
    IF SeqHas(content_type, "script") THEN "#!/bin/bash\n# Script created by PersonalAIOS\n\n"
    ELSE IF SeqHas(content_type, "document") THEN "# Document\n\nCreated by PersonalAIOS\n"
    ELSE ""

\* groups is empty or its first group is None or ''
NoFirstGroup(groups) == groups = << >> \/ ~groups[1].m \/ groups[1].s = ""

\* os_ok: the system call of the handler (touch, mkdir, Popen, unlink, rmdir)
\* succeeds; otherwise it raises OSError, caught by the handler
_create_file(m, fs, entities, os_ok) ==
    IF NoFirstGroup(entities.groups)
    THEN FmRet(m, fs, "**Please specify the filename to create**")
    ELSE LET filename  == _clean_filename(Strip(entities.groups[1].s))
             file_path == IF filename = "" THEN m.current_directory
                          ELSE Append(m.current_directory, filename)
         IN  IF FsExists(fs, file_path)
             THEN FmRet(m, fs, "**File already exists:** " \o filename)
             ELSE IF ~os_ok
             THEN FmRet(m, fs, "**Failed to create file:** OSError")
             ELSE FmRet(m, Append(fs, FsEntry(file_path, FALSE,
                                              _add_template_content(entities.context.type))),
                        "**Created file:** " \o filename)

_create_directory(m, fs, entities, os_ok) ==
    IF NoFirstGroup(entities.groups)
    THEN FmRet(m, fs, "**Please specify the directory name to create**")
    ELSE LET dirname  == _clean_filename(Strip(entities.groups[1].s))
             dir_path == IF dirname = "" THEN m.current_directory
                         ELSE Append(m.current_directory, dirname)
         IN  IF FsExists(fs, dir_path)
             THEN FmRet(m, fs, "**Directory already exists:** " \o dirname)
             ELSE IF ~os_ok
             THEN FmRet(m, fs, "**Failed to create directory:** OSError")
             ELSE FmRet(m, Append(fs, FsEntry(dir_path, TRUE, "")),
                        "**Created directory:** " \o dirname)

\* rglob of the term, of *term* when that found nothing, and of *term when
\* the term holds a dot; duplicates removed
_find_file(m, fs, entities) ==
    IF NoFirstGroup(entities.groups)
    THEN FmRet(m, fs, "**Please specify what to search for**")
    ELSE LET search_term == Strip(entities.groups[1].s)
             below   == FsBelow(fs, m.current_directory)
             exact   == { i \in below : PathName(fs[i].path) = search_term }
             partial == IF exact = {}
                        THEN { i \in below : Contains(PathName(fs[i].path), search_term) }
                        ELSE {}
             ext     == IF Contains(search_term, ".")
                        THEN { i \in below :
                                 LET name == PathName(fs[i].path)
                                 IN  /\ Len(name) >= Len(search_term)
                                     /\ LitAt(name, Len(name) - Len(search_term) + 1,
                                              search_term) }
                        ELSE {}
             results == exact \cup partial \cup ext
         IN  IF results = {}
             THEN FmRet(m, fs, "**No files found** matching '" \o search_term \o "'")
             ELSE FmRet(m, fs, "**Found " \o NatToStr(Cardinality(results))
                               \o " file(s)** matching '" \o search_term \o "':")

_list_files(m, fs) ==
    IF FsIterdir(fs, m.current_directory) = {}
    THEN FmRet(m, fs, "**Empty directory:** '" \o PathStr(m.current_directory) \o "'")
    ELSE FmRet(m, fs, "**Directory:** '" \o PathStr(m.current_directory) \o "'")

_open_file(m, fs, entities, os_ok) ==
    IF NoFirstGroup(entities.groups)
    THEN FmRet(m, fs, "**Please specify the file to open**")
    ELSE LET filename == Strip(entities.groups[1].s)
             resolved_path == _resolve_path(m, fs, filename)
         IN  IF ~resolved_path.found
             THEN FmRet(m, fs, "**File not found:** '" \o filename \o "'")
             ELSE IF FsIsDir(fs, resolved_path.path)
             THEN FmRet([m EXCEPT !.current_directory = resolved_path.path], fs,
                        "**Opened directory:** " \o PathName(resolved_path.path))
             ELSE IF ~os_ok
             THEN FmRet(m, fs, "**Failed to open:** OSError")
             ELSE FmRet(m, fs, "**Opened file:** " \o PathName(resolved_path.path))

\* the file system without the entry of the path
FsRemove(fs, path) == SeqWithout(fs, fs[FsIndex(fs, path)])

_delete_file(m, fs, entities, os_ok) ==
    IF NoFirstGroup(entities.groups)
    THEN FmRet(m, fs, "**Please specify the file to delete**")
    ELSE LET filename == Strip(entities.groups[1].s)
             resolved_path == _resolve_path(m, fs, filename)
         IN  IF ~resolved_path.found
             THEN FmRet(m, fs, "**File not found:** '" \o filename \o "'")
             ELSE IF FsIsDir(fs, resolved_path.path)
             THEN IF FsIterdir(fs, resolved_path.path) # {}
                  THEN FmRet(m, fs, "**Directory not empty:** "
                                    \o PathName(resolved_path.path))
                  ELSE IF ~os_ok \/ resolved_path.path = << >>
                  THEN FmRet(m, fs, "**Delete failed:** OSError")
                  ELSE FmRet(m, FsRemove(fs, resolved_path.path),
                             "**Deleted directory:** " \o PathName(resolved_path.path))
             ELSE IF ~os_ok
             THEN FmRet(m, fs, "**Delete failed:** OSError")
             ELSE FmRet(m, FsRemove(fs, resolved_path.path),
                        "**Deleted file:** " \o PathName(resolved_path.path))

_execute_intent(m, fs, intent, entities, os_ok) ==
    CASE intent = "create_file"      -> _create_file(m, fs, entities, os_ok)
      [] intent = "create_directory" -> _create_directory(m, fs, entities, os_ok)
      [] intent = "find_file"        -> _find_file(m, fs, entities)
      [] intent = "open_file"        -> _open_file(m, fs, entities, os_ok)
      [] intent = "delete_file"      -> _delete_file(m, fs, entities, os_ok)
      [] intent = "list_files"       -> _list_files(m, fs)

fm__handle_unknown_intent(user_input) ==
    "**I didn't understand:** \"" \o user_input \o "\"\n\n"
    \o "**Try these natural language commands:**"

\* process_command once the intent and the entities are extracted
fm_route(m, fs, user_input, entities, os_ok) ==
    IF entities.intent = NoIntent
    THEN FmRet(m, fs, fm__handle_unknown_intent(user_input))
    ELSE _execute_intent(m, fs, entities.intent, entities, os_ok)

fm_process_command(m, fs, user_input, os_ok) ==
    fm_route(m, fs, user_input,
             fm__extract_intent_and_entities(fm__preprocess_text(user_input)), os_ok)

(***************************************************************************)
(* The file manager as a state machine                                     *)
(***************************************************************************)
VARIABLES fm, fm_fs, fm_input, fm_result, fm_op

fmVars == << fm, fm_fs, fm_input, fm_result, fm_op >>

MaxFiles == 3

\* the supported phrasings of the create-file intent, up to the filename
CreatePhrasings ==
    { "create a file named ", "make a file called ", "new file ", "touch ", "create " }

\* filler words before and behind a command
Fillers ==
    { [before |-> "", behind |-> ""],
      [before |-> "Please ", behind |-> ""],
      [before |-> "", behind |-> " Please"] }

FileNames == { "notes.txt", "Notes.txt" }

\* the create-file commands: a phrasing of the filename X within fillers
FmCreateCommands ==
    { [text |-> f.before \o p \o X \o f.behind, X |-> X]
      : f \in Fillers, p \in CreatePhrasings, X \in FileNames }

FmCommands ==
    { c.text : c \in FmCreateCommands }
    \cup { "create a folder named docs", "open notes.txt", "open notes", "open docs",
           "delete notes.txt", "delete docs", "list files", "find notes", "", "   " }

fm_entities == [ c \in FmCommands |-> fm__extract_intent_and_entities(fm__preprocess_text(c)) ]

\* the home directories the manager can start in
InitialTrees ==
    { << >>,
      << FsEntry(<< "notes.txt.bak" >>, FALSE, ""), FsEntry(<< "notes.txt" >>, FALSE, "") >>,
      << FsEntry(<< "Notes.txt" >>, FALSE, ""), FsEntry(<< "docs" >>, TRUE, ""),
         FsEntry(<< "docs", "a.txt" >>, FALSE, "") >>,
      << FsEntry(<< "NOTES.TXT" >>, FALSE, ""), FsEntry(<< "notes.txt" >>, FALSE, "") >> }

\* IntelligentFileManager(): current_directory = Path.home()
fm___init__ == [current_directory |-> << >>]

FmInit ==
    /\ fm = fm___init__
    /\ fm_fs \in InitialTrees
    /\ fm_input = ""
    /\ fm_result = ""
    /\ fm_op = "init"

\* the file manager of an empty home directory, left alone
FmIdle ==
    /\ fm = fm___init__
    /\ fm_fs = << >>
    /\ fm_input = ""
    /\ fm_result = ""
    /\ fm_op = "init"

\* the intents whose handler makes a system call that can fail
FmSystemIntents == { "create_file", "create_directory", "open_file", "delete_file" }

\* process_command(user_input)
FmProcessCommand(user_input, os_ok) ==
    \E entities \in { fm_entities[user_input] } :
    \E r \in { fm_route(fm, fm_fs, user_input, entities, os_ok) } :
        /\ ~os_ok => entities.intent \in FmSystemIntents
        /\ Len(r.fs) <= MaxFiles
        /\ fm' = r.m
        /\ fm_fs' = r.fs
        /\ fm_input' = user_input
        /\ fm_result' = r.out
        /\ fm_op' = "command"

\* the manager is constructed again: it starts in the home directory
FmRestart ==
    /\ fm_op # "init"
    /\ fm' = fm___init__
    /\ fm_input' = ""
    /\ fm_result' = ""
    /\ fm_op' = "init"
    /\ UNCHANGED fm_fs

(***************************************************************************)
(* Claims about the file manager                                           *)
(***************************************************************************)
\* C6: every supported phrasing of the create-file intent, with or without
\* surrounding filler words, resolves to create_file with exactly X captured
\* as the filename, for every filename X: the handler creates, or finds
\* existing, the file X.
C6_CreateFileCapturesName ==
    \A c \in FmCreateCommands :
        (fm_op = "command" /\ fm_input = c.text)
            => /\ fm_entities[c.text].intent = "create_file"
               /\ fm_entities[c.text].groups[1] = Capture(c.X)
               /\ fm_result \in { "**Created file:** " \o c.X,
                                  "**File already exists:** " \o c.X,
                                  "**Failed to create file:** OSError" }

\* C7 (files): when an entry of the current directory whose name equals the
\* requested target exists, open and delete act on that entry, also when an
\* entry listed earlier contains the target as a substring.
C7_ExactFilePreferred ==
    [][ \A c \in FmCommands :
          (/\ fm_op' = "command"
           /\ fm_input' = c
           /\ fm_entities[c].intent \in { "open_file", "delete_file" }
           /\ FsExists(fm_fs, Append(fm.current_directory,
                                     Strip(fm_entities[c].groups[1].s))))
              => LET target == Strip(fm_entities[c].groups[1].s)
                 IN  fm_result' \in { "**Opened file:** " \o target,
                                      "**Opened directory:** " \o target,
                                      "**Failed to open:** OSError",
                                      "**Deleted file:** " \o target,
                                      "**Deleted directory:** " \o target,
                                      "**Directory not empty:** " \o target,
                                      "**Delete failed:** OSError" } ]_fmVars

C7_FileWitness ==
    /\ fm_op = "command"
    /\ fm_input = "open notes.txt"
    /\ fm_result = "**Opened file:** notes.txt"
    /\ \E i \in 1..Len(fm_fs) : fm_fs[i].path = << "notes.txt.bak" >>

\* C15: a delete command removes a file or directory only after a
\* confirmation step: a single delete command on its own, the first command
\* the manager is given, removes nothing from the file system.
C15_DeleteNeedsConfirmation ==
    [][ \A c \in FmCommands :
          (/\ fm_op = "init"
           /\ fm_op' = "command"
           /\ fm_input' = c
           /\ fm_entities[c].intent = "delete_file")
              => FsPaths(fm_fs') = FsPaths(fm_fs) ]_fmVars

(***************************************************************************)
(* window_manager.py: IntelligentWindowManager                             *)
(*                                                                         *)
(* The X session the tools act on is a record: its windows in wmctrl -l    *)
(* order as [id, workspace, class, title, maximized, hidden, tile], the id *)
(* of the active window ("None": no window is active) and the current      *)
(* desktop.  A tool (wmctrl, xdotool) is "ok" (runs, exit code 0), "fail"  *)
(* (runs, non-zero exit code) or "missing" (FileNotFoundError).  What      *)
(* process_command returns is WmStr(s) for a string and WmNone for None.   *)
(***************************************************************************)
\* r'\b(?:please|can\s+you|would\s+you|could\s+you)\b'
wm_filler_words ==
    RCat(<<RWb, RAlt(<<RLit("please"),
                       RCat(<<RLit("can"), RCls(SpaceCh, 1, -1, TRUE), RLit("you")>>),
                       RCat(<<RLit("would"), RCls(SpaceCh, 1, -1, TRUE), RLit("you")>>),
                       RCat(<<RLit("could"), RCls(SpaceCh, 1, -1, TRUE), RLit("you")>>)>>), RWb>>)

wm__preprocess_text(text) ==
    Lower(Strip(ReSub(whitespace_run, " ", ReSub(wm_filler_words, "", text, TRUE), FALSE)))

spatial_keywords ==
    << [k |-> "left",   v |-> << "left", "west" >>],
       [k |-> "right",  v |-> << "right", "east" >>],
       [k |-> "top",    v |-> << "top", "up", "north" >>],
       [k |-> "bottom", v |-> << "bottom", "down", "south" >>],
       [k |-> "center", v |-> << "center", "middle" >>],
       [k |-> "corner", v |-> << "corner" >> ] >>

size_keywords ==
    << [k |-> "small",  v |-> << "small", "tiny", "mini", "compact" >>],
       [k |-> "medium", v |-> << "medium", "normal", "regular" >>],
       [k |-> "large",  v |-> << "large", "big", "huge", "maximum" >>] >>

\* the key of the first entry one of whose keywords occurs in the text; ""
\* where the context has no such key
FirstKeyIn(table, text) ==
    LET hits == { i \in 1..Len(table) : AnyIn(table[i].v, text) }
    IN  IF hits = {} THEN "" ELSE table[SetMin(hits)].k

\* r'workspace\s+(\d+|next|previous|left|right)'
workspace_reference ==
    RCat(<<RLit("workspace"), RCls(SpaceCh, 1, -1, TRUE),
           RGrp(RAlt(<<RCls(DigitCh, 1, -1, TRUE), RLit("next"), RLit("previous"),
                       RLit("left"), RLit("right")>>))>>)

\* a key the context lacks is ""
_extract_spatial_context(text) ==
    LET workspace_match == ReSearch(workspace_reference, text, FALSE)
    IN  [direction |-> FirstKeyIn(spatial_keywords, text),
         size      |-> FirstKeyIn(size_keywords, text),
         workspace |-> IF workspace_match.found THEN workspace_match.g[1].s ELSE ""]

app_names ==
    << "firefox", "chrome", "terminal", "code", "vscode", "nautilus", "files", "calculator",
       "text editor", "browser", "editor" >>

_identify_window_target(text, groups) ==
    LET named == { i \in 1..Len(app_names) : Contains(text, app_names[i]) }
    IN  IF named # {} THEN app_names[SetMin(named)]
        ELSE IF AnyIn(<< "current", "active", "this", "focused" >>, text) THEN "current"
        ELSE IF groups # << >> /\ groups[1].m /\ groups[1].s # "" THEN Strip(groups[1].s)
        ELSE "current"

wm__extract_intent_and_entities(text) ==
    LET r == ScanTable(wm_intent_patterns, text)
    IN  IF r.intent = NoIntent
        THEN [intent |-> NoIntent, groups |-> << >>,
              context |-> [direction |-> "", size |-> "", workspace |-> ""],
              window_target |-> "current"]
        ELSE [intent |-> r.intent, groups |-> r.groups,
              context |-> _extract_spatial_context(text),
              window_target |-> _identify_window_target(text, r.groups)]

WmStr(s) == [is_str |-> TRUE, s |-> s]

WmNone == [is_str |-> FALSE, s |-> "None"]

\* what a handler gives back: the X session after it, what it returned, and
\* whether it raised instead (s: str(e))
WmRet(x, out) == [x |-> x, exc |-> FALSE, out |-> out]

WmRaise(x, msg) == [x |-> x, exc |-> TRUE, out |-> WmStr(msg)]

\* the message of the AttributeError for a method the class does not define
NoAttribute(name) ==
    "'IntelligentWindowManager' object has no attribute '" \o name \o "'"

\* _get_window_list: wmctrl -l, else xdotool search, whose output goes to
\* the undefined _parse_xdotool_output, else []
_get_window_list(x, wmctrl, xdotool) ==
    IF wmctrl = "ok" THEN [exc |-> FALSE, msg |-> "", windows |-> x.windows]
    ELSE IF xdotool = "ok"
    THEN [exc |-> TRUE, msg |-> NoAttribute("_parse_xdotool_output"), windows |-> << >>]
    ELSE [exc |-> FALSE, msg |-> "", windows |-> << >>]

\* the index in windows of the window found, 0 for None
_find_window_by_name(windows, name) ==
    LET name_lower == Lower(name)
        n == Len(windows)
        words == SplitWords(name_lower)
        by_title == { i \in 1..n : Contains(Lower(windows[i].title), name_lower) }
        by_class == { i \in 1..n : Contains(Lower(windows[i].class), name_lower) }
        fuzzy == { i \in 1..n :
                     \E k \in 1..Len(words) :
                        \/ Contains(Lower(windows[i].title), words[k])
                        \/ Contains(Lower(windows[i].class), words[k]) }
    IN  IF by_title # {} THEN SetMin(by_title)
        ELSE IF by_class # {} THEN SetMin(by_class)
        ELSE IF fuzzy # {} THEN SetMin(fuzzy)
        ELSE 0

\* the X session after the tool has acted on the window with the id; no such
\* window: nothing happens
XSet(x, id, field, value) ==
    [x EXCEPT !.windows =
        [ i \in 1..Len(x.windows) |->
            IF x.windows[i].id = id
            THEN [x.windows[i] EXCEPT ![field] = value]
            ELSE x.windows[i] ]]

RECURSIVE XWithout(_, _)
XWithout(windows, id) ==
    IF windows = << >> THEN << >>
    ELSE (IF Head(windows).id = id THEN << >> ELSE << Head(windows) >>)
         \o XWithout(Tail(windows), id)

XClose(x, id) ==
    [x EXCEPT !.windows = XWithout(x.windows, id),
              !.active = IF x.active = id THEN "None" ELSE x.active]

\* the X session after the action of a tool on a window, when the tool runs
\* with exit code 0. The session holds what the manager reads back from the
\* tools (the window list, the active window, the desktop): the geometry a
\* maximize, minimize or tile changes is not part of it
XAct(x, id, action, tool) ==
    IF tool # "ok" THEN x
    ELSE CASE action \in { "maximize", "minimize", "tile" } -> x
           [] action = "close" -> XClose(x, id)
           [] action = "focus" ->
                IF \E i \in 1..Len(x.windows) : x.windows[i].id = id
                THEN [x EXCEPT !.active = id]
                ELSE x

\* the fallback of maximize, minimize and close: a key sent with xdotool to
\* the active window, its exit code unread
Fallback(x, action, done, xdotool) ==
    IF xdotool = "missing"
    THEN WmRet(x, WmStr("**Window management tools not available**"))
    ELSE WmRet(XAct(x, x.active, action, xdotool),
               WmStr("**" \o done \o " current window** (using keyboard shortcut)"))

_fallback_maximize(x, xdotool) == Fallback(x, "maximize", "Maximized", xdotool)

_fallback_minimize(x, xdotool) == Fallback(x, "minimize", "Minimized", xdotool)

_fallback_close(x, xdotool) == Fallback(x, "close", "Closed", xdotool)

\* the branch of maximize, minimize and close for a named window
OnNamedWindow(x, window_target, action, done, failed, wmctrl, xdotool) ==
    LET l == _get_window_list(x, wmctrl, xdotool)
        i == _find_window_by_name(l.windows, window_target)
    IN  IF l.exc THEN WmRet(x, WmStr("**" \o failed \o " failed:** " \o l.msg))
        ELSE IF i # 0
        THEN WmRet(XAct(x, l.windows[i].id, action, wmctrl),
                   WmStr("**" \o done \o " window:** " \o l.windows[i].title))
        ELSE WmRet(x, WmStr("**Window not found:** " \o window_target))

_maximize_window(x, entities, wmctrl, xdotool) ==
    IF entities.window_target = "current"
    THEN CASE wmctrl = "ok" ->
                WmRet(XAct(x, x.active, "maximize", wmctrl),
                      WmStr("**Maximized current window**"))
           [] wmctrl = "fail" ->
                WmRet(x, WmStr("**Failed to maximize:** Window control not available"))
           [] wmctrl = "missing" -> _fallback_maximize(x, xdotool)
    ELSE OnNamedWindow(x, entities.window_target, "maximize", "Maximized", "Maximize",
                       wmctrl, xdotool)

\* with a non-zero exit code the branch for the current window ends without
\* a return statement: the method returns None
_minimize_window(x, entities, wmctrl, xdotool) ==
    IF entities.window_target = "current"
    THEN CASE wmctrl = "ok" ->
                WmRet(XAct(x, x.active, "minimize", wmctrl),
                      WmStr("**Minimized current window**"))
           [] wmctrl = "fail" -> WmRet(x, WmNone)
           [] wmctrl = "missing" -> _fallback_minimize(x, xdotool)
    ELSE OnNamedWindow(x, entities.window_target, "minimize", "Minimized", "Minimize",
                       wmctrl, xdotool)

_close_window(x, entities, wmctrl, xdotool) ==
    IF entities.window_target = "current"
    THEN CASE wmctrl = "ok" ->
                WmRet(XAct(x, x.active, "close", wmctrl), WmStr("**Closed current window**"))
           [] wmctrl = "fail" -> WmRet(x, WmNone)
           [] wmctrl = "missing" -> _fallback_close(x, xdotool)
    ELSE OnNamedWindow(x, entities.window_target, "close", "Closed", "Close",
                       wmctrl, xdotool)

_focus_window(x, entities, wmctrl, xdotool) ==
    LET l == _get_window_list(x, wmctrl, xdotool)
        i == _find_window_by_name(l.windows, entities.window_target)
    IN  IF l.exc THEN WmRet(x, WmStr("**Focus failed:** " \o l.msg))
        ELSE IF i # 0
        THEN WmRet(XAct(x, l.windows[i].id, "focus", wmctrl),
                   WmStr("**Focused on window:** " \o l.windows[i].title))
        ELSE WmRet(x, WmStr("**Window not found:** " \o entities.window_target))

\* the window is unmaximized and placed on its half of the screen; for the
\* current window a missing wmctrl leads to the undefined _fallback_tile
_tile_window(x, entities, wmctrl, xdotool) ==
    LET direction == IF entities.context.direction = "" THEN "left"
                     ELSE entities.context.direction
        tiled(id) == XAct(x, id, "tile", wmctrl)
        l == _get_window_list(x, wmctrl, xdotool)
        i == _find_window_by_name(l.windows, entities.window_target)
    IN  IF direction \notin { "left", "right", "top", "bottom" }
        THEN WmRet(x, WmStr("**Unknown direction:** " \o direction))
        ELSE IF entities.window_target = "current"
        THEN IF wmctrl = "missing" THEN WmRaise(x, NoAttribute("_fallback_tile"))
             ELSE WmRet(tiled(x.active),
                        WmStr("**Tiled current window to " \o direction \o "**"))
        ELSE IF l.exc THEN WmRet(x, WmStr("**Tile failed:** " \o l.msg))
        ELSE IF i # 0
        THEN WmRet(tiled(l.windows[i].id),
                   WmStr("**Tiled " \o l.windows[i].title \o " to " \o direction \o "**"))
        ELSE WmRet(x, WmStr("**Window not found:** " \o entities.window_target))

\* wmctrl -t and -s take the number of a desktop; the effect of the words
\* next and prev on the session is left out (the session is unchanged)
_workspace_action(x, entities, wmctrl) ==
    LET workspace == IF entities.context.workspace = "" THEN "1"
                     ELSE entities.context.workspace
        first == entities.groups[1]
        moved == IF wmctrl = "ok"
                 THEN XSet(x, x.active, "workspace", DigitsToInt(workspace) - 1)
                 ELSE x
        switched == IF wmctrl = "ok"
                    THEN [x EXCEPT !.desktop = DigitsToInt(workspace) - 1]
                    ELSE x
    IN  IF entities.groups = << >>
        THEN WmRet(x, WmStr("**Workspace action failed:** tuple index out of range"))
        ELSE IF ~first.m
        THEN WmRet(x, WmStr("**Workspace action failed:** "
                            \o "argument of type 'NoneType' is not iterable"))
        ELSE IF wmctrl = "missing"
        THEN WmRet(x, WmStr("**Workspace management not available** (wmctrl not found)"))
        ELSE IF Contains(first.s, "move") \/ Contains(first.s, "send")
        THEN CASE IsDigitStr(workspace) ->
                    WmRet(moved, WmStr("**Moved current window to workspace "
                                       \o workspace \o "**"))
               [] workspace \in { "next", "right" } ->
                    WmRet(x, WmStr("**Moved current window to next workspace**"))
               [] workspace \in { "previous", "left" } ->
                    WmRet(x, WmStr("**Moved current window to previous workspace**"))
               [] OTHER -> WmRet(x, WmNone)
        ELSE CASE IsDigitStr(workspace) ->
                    WmRet(switched, WmStr("**Switched to workspace " \o workspace \o "**"))
               [] workspace \in { "next", "right" } ->
                    WmRet(x, WmStr("**Switched to next workspace**"))
               [] workspace \in { "previous", "left" } ->
                    WmRet(x, WmStr("**Switched to previous workspace**"))
               [] OTHER -> WmRet(x, WmNone)

_list_windows(x, wmctrl, xdotool) ==
    LET l == _get_window_list(x, wmctrl, xdotool)
    IN  IF l.exc THEN WmRet(x, WmStr("**Failed to list windows:** " \o l.msg))
        ELSE IF l.windows = << >>
        THEN WmRet(x, WmStr("**No windows found** or window management not available"))
        ELSE WmRet(x, WmStr("**Open Windows** (" \o NatToStr(Len(l.windows)) \o " total):"))

\* for the current window the undefined _get_current_window_info is called
_get_window_info(x, entities, wmctrl, xdotool) ==
    LET l == _get_window_list(x, wmctrl, xdotool)
        i == _find_window_by_name(l.windows, entities.window_target)
    IN  IF entities.window_target = "current"
        THEN WmRet(x, WmStr("**Failed to get window info:** "
                            \o NoAttribute("_get_current_window_info")))
        ELSE IF l.exc THEN WmRet(x, WmStr("**Failed to get window info:** " \o l.msg))
        ELSE IF i = 0 THEN WmRet(x, WmStr("**Window not found:** " \o entities.window_target))
        ELSE WmRet(x, WmStr("**Window Information:**"))

\* the handler's outcome; an exception it raises is turned into a string.
\* _move_window, _resize_window and _set_window_properties are not defined
\* try: r, except Exception as e: the text of e after the prefix
WmCaught(r) ==
    IF r.exc THEN WmRet(r.x, WmStr("**Window management error:** " \o r.out.s)) ELSE r

_execute_window_intent(x, intent, entities, wmctrl, xdotool) ==
    WmCaught(CASE intent = "maximize_window"  -> _maximize_window(x, entities, wmctrl, xdotool)
               [] intent = "minimize_window"  -> _minimize_window(x, entities, wmctrl, xdotool)
               [] intent = "close_window"     -> _close_window(x, entities, wmctrl, xdotool)
               [] intent = "focus_window"     -> _focus_window(x, entities, wmctrl, xdotool)
               [] intent = "move_window"      -> WmRaise(x, NoAttribute("_move_window"))
               [] intent = "resize_window"    -> WmRaise(x, NoAttribute("_resize_window"))
               [] intent = "tile_window"      -> _tile_window(x, entities, wmctrl, xdotool)
               [] intent = "workspace_action" -> _workspace_action(x, entities, wmctrl)
               [] intent = "window_properties" ->
                     WmRaise(x, NoAttribute("_set_window_properties"))
               [] intent = "list_windows"     -> _list_windows(x, wmctrl, xdotool)
               [] intent = "window_info"      -> _get_window_info(x, entities, wmctrl, xdotool)
               [] OTHER -> WmRet(x, WmStr("**Intent recognized** (" \o intent
                                          \o ") but implementation pending")))

wm__handle_unknown_intent(user_input) ==
    "**I didn't understand:** \"" \o user_input \o "\"\n\n"
    \o "**Try these natural language window commands:**"

\* the command is appended to the history once its handler has returned r
WmLogged(m, r) == [m |-> [m EXCEPT !.command_history = @ + 1], x |-> r.x, out |-> r.out]

\* m: the manager (its command history, kept as its length)
wm_route(m, x, user_input, entities, wmctrl, xdotool) ==
    IF entities.intent = NoIntent
    THEN [m |-> m, x |-> x, out |-> WmStr(wm__handle_unknown_intent(user_input))]
    ELSE WmLogged(m, _execute_window_intent(x, entities.intent, entities, wmctrl, xdotool))

wm_process_command(m, x, user_input, wmctrl, xdotool) ==
    wm_route(m, x, user_input, wm__extract_intent_and_entities(wm__preprocess_text(user_input)),
             wmctrl, xdotool)

(***************************************************************************)
(* The window manager as a state machine                                   *)
(***************************************************************************)
VARIABLES wm, wm_x, wm_input, wm_result, wm_op, wm_tools

wmVars == << wm, wm_x, wm_input, wm_result, wm_op, wm_tools >>

ToolOutcomes == { "ok", "fail", "missing" }

WmCommands ==
    { "minimize the window", "Please minimize the window firefox", "close the window",
      "close the app terminal", "maximize the window", "maximize the window firefox",
      "focus on the window firefox", "tile the window firefox to the right",
      "tile the current window to the left", "move the window to workspace 2",
      "send the window to workspace 2", "switch to workspace 2", "pin the window",
      "list windows", "info about the window firefox", "hide the window xyz", "", "   " }

wm_entities == [ c \in WmCommands |-> wm__extract_intent_and_entities(wm__preprocess_text(c)) ]

XWindow(id, workspace, class, title) ==
    [id |-> id, workspace |-> workspace, class |-> class, title |-> title]

\* the sessions the manager can start in
InitialSessions ==
    { [windows |-> << >>, active |-> "None", desktop |-> 0],
      [windows |-> << XWindow("0x01", 0, "firefox", "Mozilla Firefox") >>,
       active |-> "0x01", desktop |-> 0] }

wm___init__ == [command_history |-> 0]

WmInit ==
    /\ wm = wm___init__
    /\ wm_x \in InitialSessions
    /\ wm_input = ""
    /\ wm_result = WmStr("")
    /\ wm_tools = [wmctrl |-> "ok", xdotool |-> "ok"]
    /\ wm_op = "init"

\* the window manager of a session without windows, left alone
WmIdle ==
    /\ wm = wm___init__
    /\ wm_x = [windows |-> << >>, active |-> "None", desktop |-> 0]
    /\ wm_input = ""
    /\ wm_result = WmStr("")
    /\ wm_tools = [wmctrl |-> "ok", xdotool |-> "ok"]
    /\ wm_op = "init"

\* process_command(user_input), with the outcome the tools have this time;
\* xdotool is only run when wmctrl is missing or has failed, and no tool is
\* run for a command without intent
WmProcessCommand(user_input, wmctrl, xdotool) ==
    \E entities \in { wm_entities[user_input] } :
    \E r \in { wm_route(wm, wm_x, user_input, entities, wmctrl, xdotool) } :
        /\ r.m.command_history <= MaxCommandLog
        /\ entities.intent = NoIntent => wmctrl = "ok"
        /\ wmctrl = "ok" => xdotool = "ok"
        /\ wm' = r.m
        /\ wm_x' = r.x
        /\ wm_input' = user_input
        /\ wm_result' = r.out
        /\ wm_tools' = [wmctrl |-> wmctrl, xdotool |-> xdotool]
        /\ wm_op' = "command"

\* the manager is constructed again over the same session
WmRestart ==
    /\ wm_op # "init"
    /\ wm' = wm___init__
    /\ wm_input' = ""
    /\ wm_result' = WmStr("")
    /\ wm_tools' = [wmctrl |-> "ok", xdotool |-> "ok"]
    /\ wm_op' = "init"
    /\ UNCHANGED wm_x

(***************************************************************************)
(* Claims about the window manager                                         *)
(***************************************************************************)
\* C3: process_command returns a displayable string, and lets no exception
\* reach the caller, for any input and for any outcome (missing tool,
\* non-zero exit code, raised exception, missing handler) of the handlers
\* and external commands it invokes.
C3_AlwaysReturnsString ==
    wm_op = "command" => wm_result.is_str /\ wm_result.s # ""

(***************************************************************************)
(* The intent matchers on their own: _extract_intent_and_entities of each  *)
(* component (_extract_intent_dynamically of the launcher) applied to a    *)
(* text, whatever the state of the component.                              *)
(***************************************************************************)
VARIABLES mt_component, mt_text, mt_result, mt_op

mtVars == << mt_component, mt_text, mt_result, mt_op >>

MtComponents == { "fm", "st", "al", "ws", "wm" }

\* self.intent_patterns (self.patterns) of the component
MtTable(k) ==
    CASE k = "fm" -> fm_intent_patterns
      [] k = "st" -> st_intent_patterns
      [] k = "al" -> al_patterns
      [] k = "ws" -> ws_intent_patterns
      [] k = "wm" -> wm_intent_patterns

MtHit(intent, groups) == [intent |-> intent, groups |-> groups]

\* the launcher keeps match.group(1), or None when the pattern has no group
MtTarget(e) == IF e.target = NoCapture THEN << >> ELSE << e.target >>

\* the intent and the groups the component's matcher returns for the text
MtExtract(k, text) ==
    CASE k = "fm" -> (LET e == fm__extract_intent_and_entities(text)
                      IN  MtHit(e.intent, e.groups))
      [] k = "st" -> (LET e == st__extract_intent_and_entities(text)
                      IN  MtHit(e.intent, e.groups))
      [] k = "al" -> (LET e == _extract_intent_dynamically(text)
                      IN  MtHit(e.intent, MtTarget(e)))
      [] k = "ws" -> (LET e == ws__extract_intent_and_entities(text)
                      IN  MtHit(e.intent, e.groups))
      [] k = "wm" -> (LET e == wm__extract_intent_and_entities(text)
                      IN  MtHit(e.intent, e.groups))

\* texts that patterns of several intents match, or none
MtSharedTexts ==
    { "create a folder named a.txt", "create notes.txt", "new folder docs",
      "open settings for theme", "list workspaces", "set theme to dark",
      "delete workspace 2", "close the window", "find notes", "xyzzy", "" }

\* the texts given to the matcher of a component: its own commands as
\* preprocessed, and the shared texts
MtTexts ==
    [ k \in MtComponents |->
        MtSharedTexts
        \cup CASE k = "fm" -> { fm__preprocess_text(c) : c \in FmCommands }
               [] k = "st" -> { _preprocess_text(c) : c \in StCommands }
               [] k = "al" -> { _preprocess_input(c) : c \in AlCommands }
               [] k = "ws" -> { _preprocess_text(c) : c \in WsCommands }
               [] k = "wm" -> { wm__preprocess_text(c) : c \in WmCommands } ]

\* the outcome of each matcher on each of its texts, computed once
mt_entities == [ k \in MtComponents |-> [ text \in MtTexts[k] |-> MtExtract(k, text) ] ]

MtIdle ==
    /\ mt_component = "fm"
    /\ mt_text = ""
    /\ mt_result = MtHit(NoIntent, << >>)
    /\ mt_op = "init"

\* _extract_intent_and_entities(text) of component k
MtExtractIntent(k, text) ==
    /\ mt_component' = k
    /\ mt_text' = text
    /\ mt_result' = mt_entities[k][text]
    /\ mt_op' = "match"

(***************************************************************************)
(* Claims about the matchers                                               *)
(***************************************************************************)
\* the <<intent index, pattern index>> of every pattern of the table that
\* re.search finds in the text
MtMatching(table, text) ==
    UNION { { << i, j >> : j \in { n \in 1..Len(table[i].patterns) :
                                     ReSearch(table[i].patterns[n], text, TRUE).found } }
            : i \in 1..Len(table) }

\* the earliest-defined intent among the hits, and its earliest pattern
MtEarliest(hits) ==
    CHOOSE p \in hits : \A q \in hits : p[1] < q[1] \/ (p[1] = q[1] /\ p[2] <= q[2])

\* the groups as the component hands them on
MtGroups(k, g) == IF k = "al" THEN (IF g = << >> THEN << >> ELSE << g[1] >>) ELSE g

MtEarliestWins(k, table, text, hits, got) ==
    IF hits = {}
    THEN got = MtHit(NoIntent, << >>)
    ELSE /\ got.intent # NoIntent
         /\ \E p \in { MtEarliest(hits) } :
              /\ got.intent = table[p[1]].intent
              /\ got.groups = MtGroups(k, ReSearch(table[p[1]].patterns[p[2]], text, TRUE).g)

\* C11: for every component's pattern table and every input text, the matcher
\* returns the earliest-defined intent that has any matching pattern, with
\* the groups captured by that intent's earliest matching pattern, whatever
\* the match lengths; it returns no intent exactly when no pattern of any
\* intent matches.
C11_EarliestIntentWins ==
    mt_op = "match"
        => MtEarliestWins(mt_component, MtTable(mt_component), mt_text,
                          MtMatching(MtTable(mt_component), mt_text), mt_result)

\* a text that patterns of two intents match, the later-defined one with the
\* longer and more specific match: the earlier-defined intent is returned
C11_Witness ==
    /\ mt_op = "match"
    /\ mt_component = "fm"
    /\ mt_text = "create a folder named a.txt"
    /\ mt_result.intent = "create_file"
    /\ \E i, j \in 1..Len(fm_intent_patterns) :
         /\ i < j
         /\ fm_intent_patterns[j].intent = "create_directory"
         /\ << j, 1 >> \in MtMatching(fm_intent_patterns, mt_text)
         /\ << i, 5 >> \in MtMatching(fm_intent_patterns, mt_text)

(***************************************************************************)
(* desktop_manager.py: DesktopManager, and ai_shell.py: on_send            *)
(*                                                                         *)
(* The router holds the components that load_components could construct,   *)
(* in load order.  A response is what send_response_to_ai_shell hands to   *)
(* the shell (GLib.idle_add of add_ai_message): a string, or the None a    *)
(* component returned.  dm_invoked lists the components whose              *)
(* process_command ran for the latest utterance, dm_sent the responses     *)
(* sent for it, dm_handled what the router returned, dm_ai what on_send    *)
(* did with an utterance the router did not handle; dm.chat counts the     *)
(* user messages in the shell's chat box.                                  *)
(***************************************************************************)
VARIABLES dm, dm_input, dm_invoked, dm_sent, dm_handled, dm_ai, dm_op

dmVars == << dm, dm_input, dm_invoked, dm_sent, dm_handled, dm_ai, dm_op >>

\* load_components: the components in the order they are registered
ComponentNames ==
    << "top_panel", "file_manager", "window_manager", "notification_system",
       "application_launcher", "workspace_manager", "system_status", "settings_manager",
       "system_monitor" >>

\* the components the router sends utterances to
RoutedComponents == { "application_launcher", "file_manager", "window_manager" }

launcher_keywords ==
    << "applications", "apps", "what applications", "list apps", "installed", "programs",
       "software", "open", "launch", "start", "run" >>

file_keywords ==
    << "find", "search", "file", "folder", "directory", "create", "delete", "copy", "move",
       "list files" >>

window_keywords == << "maximize", "minimize", "close", "window", "windows", "focus", "tile" >>

system_keywords == << "system", "desktop", "components", "status", "info" >>

is_launcher_command(user_input) == AnyIn(launcher_keywords, user_input)

is_file_command(user_input) == AnyIn(file_keywords, user_input)

is_window_command(user_input) == AnyIn(window_keywords, user_input)

is_system_command(user_input) == AnyIn(system_keywords, user_input)

get_desktop_info(m) ==
    "**PersonalAIOS Desktop Manager** Components Loaded: " \o NatToStr(Len(m.components))

get_system_info(m) ==
    "**System Information** PersonalAIOS Components: " \o NatToStr(Len(m.components))

handle_system_commands(m, user_input) ==
    IF Contains(Lower(user_input), "desktop") \/ Contains(Lower(user_input), "components")
    THEN get_desktop_info(m)
    ELSE IF Contains(Lower(user_input), "system") THEN get_system_info(m)
    ELSE "**PersonalAIOS Desktop Manager** - Try 'desktop info' or 'system status'"

\* what process_command has done when it returns
DmDone(invoked, sent, handled) == [invoked |-> invoked, sent |-> sent, handled |-> handled]

\* response = self.components[name].process_command(user_input), then
\* send_response_to_ai_shell(response) and return True; an exception of the
\* component is answered from the except clause
DmInvoke(name, r) ==
    IF r.exc
    THEN DmDone(<< name >>, << WmStr("**Component Error:** " \o r.out.s) >>, TRUE)
    ELSE DmDone(<< name >>, << r.out >>, TRUE)

\* a router that takes an utterance for handled although the component its
\* keywords select was not loaded
process_command_unloaded(m, user_input, lower, results) ==
    IF is_launcher_command(lower)
    THEN IF SeqHas(m.components, "application_launcher")
         THEN DmInvoke("application_launcher", results["application_launcher"])
         ELSE DmDone(<< >>, << >>, TRUE)
    ELSE IF is_file_command(lower)
    THEN IF SeqHas(m.components, "file_manager")
         THEN DmInvoke("file_manager", results["file_manager"])
         ELSE DmDone(<< >>, << >>, TRUE)
    ELSE IF is_window_command(lower)
    THEN IF SeqHas(m.components, "window_manager")
         THEN DmInvoke("window_manager", results["window_manager"])
         ELSE DmDone(<< >>, << >>, TRUE)
    ELSE IF is_system_command(lower)
    THEN DmDone(<< >>, << WmStr(handle_system_commands(m, user_input)) >>, TRUE)
    ELSE DmDone(<< >>, << >>, FALSE)

\* DesktopManager.process_command(user_input); lower: user_input.lower();
\* results: what process_command of each loaded component does with the
\* utterance when it is called
process_command(m, user_input, lower, results) ==
    IF is_launcher_command(lower) /\ SeqHas(m.components, "application_launcher")
    THEN DmInvoke("application_launcher", results["application_launcher"])
    ELSE IF is_file_command(lower) /\ SeqHas(m.components, "file_manager")
    THEN DmInvoke("file_manager", results["file_manager"])
    ELSE IF is_window_command(lower) /\ SeqHas(m.components, "window_manager")
    THEN DmInvoke("window_manager", results["window_manager"])
    ELSE IF is_system_command(lower)
    THEN DmDone(<< >>, << WmStr(handle_system_commands(m, user_input)) >>, TRUE)
    ELSE DmDone(<< >>, << >>, FALSE)

(***************************************************************************)
(* The router as a state machine, over the launcher, the file manager and  *)
(* the window manager it holds                                             *)
(***************************************************************************)
\* what the user types into the entry
DmCommands ==
    { "open code", "list applications", "create a file named notes.txt", "list files",
      "delete notes.txt", "minimize the window", "close the window", "list windows",
      "move the window to workspace 2", "open the file window", "set theme to dark",
      "desktop info", "system status", " what is this", "   " }

DmTexts == { Strip(c) : c \in DmCommands }

\* the keywords of each utterance, computed once
dm_keywords ==
    [ text \in DmTexts |->
        [ launcher |-> is_launcher_command(Lower(text)),
          file     |-> is_file_command(Lower(text)),
          window   |-> is_window_command(Lower(text)) ] ]

\* intent and entities of each utterance in each component, computed once
dm_al_entities == [ text \in DmTexts |-> _extract_intent_dynamically(_preprocess_input(text)) ]

dm_fm_entities ==
    [ text \in DmTexts |-> fm__extract_intent_and_entities(fm__preprocess_text(text)) ]

dm_wm_entities ==
    [ text \in DmTexts |-> wm__extract_intent_and_entities(wm__preprocess_text(text)) ]

\* the component was not loaded: it cannot be called
NotLoaded == [exc |-> TRUE, out |-> WmStr("KeyError"), loaded |-> FALSE]

AlCalled(r) == [exc |-> r.exc, out |-> WmStr(r.out), loaded |-> TRUE, after |-> r]

FmCalled(r) == [exc |-> FALSE, out |-> WmStr(r.out), loaded |-> TRUE, after |-> r]

WmCalled(r) == [exc |-> FALSE, out |-> r.out, loaded |-> TRUE, after |-> r]

\* the components the router can hold
LoadedSets == SUBSET RoutedComponents

DmLoaded(loaded) ==
    [ components |-> SeqFilterIn(ComponentNames,
                                 loaded \cup ({ ComponentNames[i] : i \in 1..Len(ComponentNames) }
                                                \ RoutedComponents)),
      chat |-> 0 ]

\* the largest number of utterances explored
MaxChat == 2

\* the machine the desktop of the router runs on
DmMachine ==
    /\ al_fs.installed = {}
    /\ Len(al_fs.entries) = 1
    /\ al_fs.entries[1].name = "code"
    /\ Len(fm_fs) = 2
    /\ fm_fs[1].path = << "notes.txt.bak" >>
    /\ wm_x.windows # << >>

DmIdle ==
    /\ dm = DmLoaded(RoutedComponents)
    /\ dm_input = ""
    /\ dm_invoked = << >>
    /\ dm_sent = << >>
    /\ dm_handled = FALSE
    /\ dm_ai = "none"
    /\ dm_op = "init"

\* DesktopManager(ai_shell) on a machine where some components fail to load
DmInit ==
    /\ dm \in { DmLoaded(loaded) : loaded \in LoadedSets }
    /\ dm_input = ""
    /\ dm_invoked = << >>
    /\ dm_sent = << >>
    /\ dm_handled = FALSE
    /\ dm_ai = "none"
    /\ dm_op = "init"

\* the launcher after the router's call, or as it was
DmLauncherAfter(d, ra, text) ==
    IF SeqHas(d.invoked, "application_launcher")
    THEN /\ AlWithinBounds(ra.after.m)
         /\ al' = ra.after.m
         /\ al_fs' = ra.after.fs
         /\ al_input' = text
         /\ al_result' = [exc |-> ra.after.exc, out |-> ra.after.out, app |-> ra.after.app,
                          tried |-> ra.after.tried]
         /\ al_op' = "command"
    ELSE UNCHANGED << al, al_fs, al_input, al_result, al_op >>

DmFileManagerAfter(d, rf, text) ==
    IF SeqHas(d.invoked, "file_manager")
    THEN /\ Len(rf.after.fs) <= MaxFiles
         /\ fm' = rf.after.m
         /\ fm_fs' = rf.after.fs
         /\ fm_input' = text
         /\ fm_result' = rf.after.out
         /\ fm_op' = "command"
    ELSE UNCHANGED << fm, fm_fs, fm_input, fm_result, fm_op >>

DmWindowManagerAfter(d, rw, text, wmctrl, xdotool) ==
    IF SeqHas(d.invoked, "window_manager")
    THEN /\ rw.after.m.command_history <= MaxCommandLog
         /\ wm' = rw.after.m
         /\ wm_x' = rw.after.x
         /\ wm_input' = text
         /\ wm_result' = rw.after.out
         /\ wm_tools' = [wmctrl |-> wmctrl, xdotool |-> xdotool]
         /\ wm_op' = "command"
    ELSE UNCHANGED << wm, wm_x, wm_input, wm_result, wm_op, wm_tools >>

\* on_send with a non-empty utterance: the router first, the AI when the
\* router returns False
DmRouted(text, d, ra, rf, rw, wmctrl, xdotool, ready) ==
    /\ DmLauncherAfter(d, ra, text)
    /\ DmFileManagerAfter(d, rf, text)
    /\ DmWindowManagerAfter(d, rw, text, wmctrl, xdotool)
    /\ dm_input' = text
    /\ dm_invoked' = d.invoked
    /\ dm_sent' = d.sent
    /\ dm_handled' = d.handled
    /\ dm_ai' = IF d.handled THEN "none" ELSE IF ready THEN "streaming" ELSE "not ready"
    /\ dm_op' = "send"
    /\ dm' = [dm EXCEPT !.chat = @ + 1]

\* MinimalAIShell.on_send: the entry holds typed; working, os_ok, wmctrl and
\* xdotool are how the machine answers the components, ready whether the AI
\* server answers
OnSend(typed, working, os_ok, wmctrl, xdotool, ready) ==
    /\ dm.chat < MaxChat
    /\ \E text \in { Strip(typed) } :
        IF text = ""
        THEN /\ working = {} /\ os_ok /\ wmctrl = "ok" /\ xdotool = "ok" /\ ready
             /\ dm_input' = text
             /\ dm_invoked' = << >>
             /\ dm_sent' = << >>
             /\ dm_handled' = FALSE
             /\ dm_ai' = "none"
             /\ dm_op' = "ignored"
             /\ UNCHANGED << dm, alVars, fmVars, wmVars >>
        ELSE /\ working \subseteq { al.launch_methods[k] : k \in 1..Len(al.launch_methods) }
             /\ ~dm_keywords[text].launcher => working = {}
             /\ ~dm_keywords[text].file => os_ok
             /\ ~dm_keywords[text].window => wmctrl = "ok"
             /\ wmctrl = "ok" => xdotool = "ok"
             /\ \E ra \in { IF SeqHas(dm.components, "application_launcher")
                            THEN AlCalled(al_route(al, al_fs, text, dm_al_entities[text], working))
                            ELSE NotLoaded } :
                \E rf \in { IF SeqHas(dm.components, "file_manager")
                            THEN FmCalled(fm_route(fm, fm_fs, text, dm_fm_entities[text], os_ok))
                            ELSE NotLoaded } :
                \E rw \in { IF SeqHas(dm.components, "window_manager")
                            THEN WmCalled(wm_route(wm, wm_x, text, dm_wm_entities[text],
                                                   wmctrl, xdotool))
                            ELSE NotLoaded } :
                \E d \in { process_command(dm, text, Lower(text),
                                           [ name \in RoutedComponents |->
                                               CASE name = "application_launcher" -> ra
                                                 [] name = "file_manager" -> rf
                                                 [] name = "window_manager" -> rw ]) } :
                    DmRouted(text, d, ra, rf, rw, wmctrl, xdotool, ready)

(***************************************************************************)
(* Claims about the router                                                 *)
(***************************************************************************)
\* the keyword test of a routed component
DmKeywordsOf(name, lower) ==
    CASE name = "application_launcher" -> is_launcher_command(lower)
      [] name = "file_manager" -> is_file_command(lower)
      [] name = "window_manager" -> is_window_command(lower)

\* C12: the router invokes at most one component's process_command per
\* utterance, a loaded component whose keywords the utterance contains; it
\* returns True exactly when a response for the utterance has been sent to
\* the shell; when it returns False no component has been invoked, no
\* response has been sent, and the utterance goes to the AI.
C12_RouterInvokesAtMostOne ==
    dm_op = "send"
        => /\ Len(dm_invoked) <= 1
           /\ \A i \in 1..Len(dm_invoked) :
                /\ SeqHas(dm.components, dm_invoked[i])
                /\ DmKeywordsOf(dm_invoked[i], Lower(dm_input))
           /\ dm_handled <=> Len(dm_sent) = 1
           /\ ~dm_handled => /\ dm_invoked = << >>
                             /\ dm_sent = << >>
                             /\ dm_ai # "none"
           /\ dm_handled => dm_ai = "none"

\* an utterance with the keywords of all three components reaches the
\* launcher only, and an utterance no component is loaded for goes to the AI
C12_Witness ==
    /\ dm_op = "send"
    /\ dm_input = "open the file window"
    /\ dm_invoked = << "application_launcher" >>
    /\ dm_handled
    /\ al_op = "command" /\ fm_op = "init" /\ wm_op = "init"

C12_WitnessUnhandled ==
    /\ dm_op = "send"
    /\ dm_input = "list files"
    /\ ~SeqHas(dm.components, "file_manager")
    /\ ~dm_handled
    /\ dm_ai = "streaming"

(***************************************************************************)
(* application_launcher.py: _launch_application on its own, for every      *)
(* launcher, application and outcome of the launch methods                 *)
(***************************************************************************)
VARIABLES ln_launcher, ln_app, ln_working, ln_result, ln_op

lnVars == << ln_launcher, ln_app, ln_working, ln_result, ln_op >>

LnIdle ==
    /\ ln_launcher = al___init__([entries |-> << >>, installed |-> {}, stats |-> << >>])
    /\ ln_app = 0
    /\ ln_working = {}
    /\ ln_result = NoResult
    /\ ln_op = "init"

\* the launchers of the machines
LnLaunchers ==
    { al___init__([entries |-> e, installed |-> i, stats |-> << >>])
      : e \in EntryLists, i \in InstalledSets }

\* _launch_application(app) in launcher m; working: the launch methods whose
\* Popen succeeds
LnLaunchApplication(m, i, working) ==
    \E r \in { _launch_application(m, [entries |-> << >>, installed |-> {}, stats |-> << >>],
                                   i, working) } :
        /\ ln_launcher' = m
        /\ ln_app' = i
        /\ ln_working' = working
        /\ ln_result' = [exc |-> r.exc, out |-> r.out, app |-> r.app, tried |-> r.tried]
        /\ ln_op' = "launch"

(***************************************************************************)
(* Claims about launching                                                  *)
(***************************************************************************)
LnOrdered(methods, tried, app, working, launched, out) ==
    /\ Len(tried) <= Len(methods)
    /\ tried = SubSeq(methods, 1, Len(tried))
    /\ \A k \in 1..(Len(tried) - 1) : ~_try_launch_method(app, tried[k], working)
    /\ launched => /\ tried # << >>
                   /\ _try_launch_method(app, tried[Len(tried)], working)
                   /\ StartsWith(out, "**Launched ")
    /\ ~launched => /\ tried = methods
                    /\ \A k \in 1..Len(methods) : ~_try_launch_method(app, methods[k], working)
                    /\ StartsWith(out, "**Cannot launch ")

\* C13: launching an application tries the discovered launch methods in their
\* list order, stops at the first method that succeeds without invoking any
\* later method, and reports a launch failure only after every method has
\* been tried and has failed.
C13_LaunchMethodsInOrder ==
    ln_op = "launch"
        => LnOrdered(ln_launcher.launch_methods, ln_result.tried,
                     ln_launcher.applications[ln_app], ln_working,
                     ln_result.app # "None", ln_result.out)

\* the first of three methods succeeds: direct execution, which would succeed
\* too, is not invoked
C13_Witness ==
    /\ ln_op = "launch"
    /\ Len(ln_launcher.launch_methods) = 3
    /\ ln_result.tried = SubSeq(ln_launcher.launch_methods, 1, 1)
    /\ ln_working = { "gtk-launch", "direct_execution" }
    /\ ln_result.app # "None"

\* every method is tried and fails
C13_WitnessFailure ==
    /\ ln_op = "launch"
    /\ Len(ln_launcher.launch_methods) = 3
    /\ ln_result.tried = ln_launcher.launch_methods
    /\ ln_result.app = "None"

(***************************************************************************)
(* session_manager.py: IntelligentSessionManager.  The manager is a record *)
(*   state              the SessionState of session_info                   *)
(*   components         session_info.components, a dict key -> component   *)
(*   shutdown_requested, restart_requested                                 *)
(*   command_history    the number of entries of self.command_history      *)
(*   saved              saved_session.json: whether it exists, and the     *)
(*                      keys it holds as enabled                           *)
(*   lock               the session lock file exists                       *)
(* A component is the SessionComponent record; process is "none" (None),   *)
(* "alive" or "exited" (poll() is not None), instance is "none", "live" or *)
(* "dead": an instance whose work has ended, which nothing in the manager  *)
(* reads.  Responses are abbreviated to their heading line.                *)
(***************************************************************************)
\* IntelligentSessionManager.__init__: self.intent_patterns
sm_intent_patterns ==
    <<
      [intent |-> "session_info", patterns |-> <<
        \* r'(?:session|desktop)\s+(?:info|information|status|details)'
        RCat(<<RAlt(<<RLit("session"), RLit("desktop")>>), RCls(SpaceCh, 1, -1, TRUE), RAlt(<<RLit("info"), RLit("information"), RLit("status"), RLit("details")>>)>>),
        \* r'(?:what\s+is\s+)?(?:the\s+)?(?:current\s+)?session\s+(?:status|state)'
        RCat(<<ROpt(RCat(<<RLit("what"), RCls(SpaceCh, 1, -1, TRUE), RLit("is"), RCls(SpaceCh, 1, -1, TRUE)>>)), ROpt(RCat(<<RLit("the"), RCls(SpaceCh, 1, -1, TRUE)>>)), ROpt(RCat(<<RLit("current"), RCls(SpaceCh, 1, -1, TRUE)>>)), RLit("session"), RCls(SpaceCh, 1, -1, TRUE), RLit("stat"), RAlt(<<RLit("us"), RLit("e")>>)>>),
        \* r'(?:how\s+is\s+)?(?:the\s+)?session\s+(?:doing|running)'
        RCat(<<ROpt(RCat(<<RLit("how"), RCls(SpaceCh, 1, -1, TRUE), RLit("is"), RCls(SpaceCh, 1, -1, TRUE)>>)), ROpt(RCat(<<RLit("the"), RCls(SpaceCh, 1, -1, TRUE)>>)), RLit("session"), RCls(SpaceCh, 1, -1, TRUE), RAlt(<<RLit("doing"), RLit("running")>>)>>),
        \* r'(?:show\s+me\s+)?session\s+(?:details|information)'
        RCat(<<ROpt(RCat(<<RLit("show"), RCls(SpaceCh, 1, -1, TRUE), RLit("me"), RCls(SpaceCh, 1, -1, TRUE)>>)), RLit("session"), RCls(SpaceCh, 1, -1, TRUE), RAlt(<<RLit("details"), RLit("information")>>)>>)
      >>],
      [intent |-> "restart_component", patterns |-> <<
        \* r'restart\s+(.+?)(?:\s+component)?'
        RCat(<<RLit("restart"), RCls(SpaceCh, 1, -1, TRUE), RGrp(RCls(AnyCh, 1, -1, FALSE)), ROpt(RCat(<<RCls(SpaceCh, 1, -1, TRUE), RLit("component")>>))>>),
        \* r'reload\s+(.+?)(?:\s+component)?'
        RCat(<<RLit("reload"), RCls(SpaceCh, 1, -1, TRUE), RGrp(RCls(AnyCh, 1, -1, FALSE)), ROpt(RCat(<<RCls(SpaceCh, 1, -1, TRUE), RLit("component")>>))>>),
        \* r'reboot\s+(.+?)(?:\s+component)?'
        RCat(<<RLit("reboot"), RCls(SpaceCh, 1, -1, TRUE), RGrp(RCls(AnyCh, 1, -1, FALSE)), ROpt(RCat(<<RCls(SpaceCh, 1, -1, TRUE), RLit("component")>>))>>),
        \* r'reset\s+(.+?)(?:\s+component)?'
        RCat(<<RLit("reset"), RCls(SpaceCh, 1, -1, TRUE), RGrp(RCls(AnyCh, 1, -1, FALSE)), ROpt(RCat(<<RCls(SpaceCh, 1, -1, TRUE), RLit("component")>>))>>)
      >>],
      [intent |-> "stop_component", patterns |-> <<
        \* r'stop\s+(.+?)(?:\s+component)?'
        RCat(<<RLit("stop"), RCls(SpaceCh, 1, -1, TRUE), RGrp(RCls(AnyCh, 1, -1, FALSE)), ROpt(RCat(<<RCls(SpaceCh, 1, -1, TRUE), RLit("component")>>))>>),
        \* r'kill\s+(.+?)(?:\s+component)?'
        RCat(<<RLit("kill"), RCls(SpaceCh, 1, -1, TRUE), RGrp(RCls(AnyCh, 1, -1, FALSE)), ROpt(RCat(<<RCls(SpaceCh, 1, -1, TRUE), RLit("component")>>))>>),
        \* r'disable\s+(.+?)(?:\s+component)?'
        RCat(<<RLit("disable"), RCls(SpaceCh, 1, -1, TRUE), RGrp(RCls(AnyCh, 1, -1, FALSE)), ROpt(RCat(<<RCls(SpaceCh, 1, -1, TRUE), RLit("component")>>))>>),
        \* r'turn\s+off\s+(.+?)(?:\s+component)?'
        RCat(<<RLit("turn"), RCls(SpaceCh, 1, -1, TRUE), RLit("off"), RCls(SpaceCh, 1, -1, TRUE), RGrp(RCls(AnyCh, 1, -1, FALSE)), ROpt(RCat(<<RCls(SpaceCh, 1, -1, TRUE), RLit("component")>>))>>)
      >>],
      [intent |-> "start_component", patterns |-> <<
        \* r'start\s+(.+?)(?:\s+component)?'
        RCat(<<RLit("start"), RCls(SpaceCh, 1, -1, TRUE), RGrp(RCls(AnyCh, 1, -1, FALSE)), ROpt(RCat(<<RCls(SpaceCh, 1, -1, TRUE), RLit("component")>>))>>),
        \* r'launch\s+(.+?)(?:\s+component)?'
        RCat(<<RLit("launch"), RCls(SpaceCh, 1, -1, TRUE), RGrp(RCls(AnyCh, 1, -1, FALSE)), ROpt(RCat(<<RCls(SpaceCh, 1, -1, TRUE), RLit("component")>>))>>),
        \* r'enable\s+(.+?)(?:\s+component)?'
        RCat(<<RLit("enable"), RCls(SpaceCh, 1, -1, TRUE), RGrp(RCls(AnyCh, 1, -1, FALSE)), ROpt(RCat(<<RCls(SpaceCh, 1, -1, TRUE), RLit("component")>>))>>),
        \* r'turn\s+on\s+(.+?)(?:\s+component)?'
        RCat(<<RLit("turn"), RCls(SpaceCh, 1, -1, TRUE), RLit("on"), RCls(SpaceCh, 1, -1, TRUE), RGrp(RCls(AnyCh, 1, -1, FALSE)), ROpt(RCat(<<RCls(SpaceCh, 1, -1, TRUE), RLit("component")>>))>>)
      >>],
      [intent |-> "list_components", patterns |-> <<
        \* r'list\s+(?:all\s+)?(?:session\s+)?components'
        RCat(<<RLit("list"), RCls(SpaceCh, 1, -1, TRUE), ROpt(RCat(<<RLit("all"), RCls(SpaceCh, 1, -1, TRUE)>>)), ROpt(RCat(<<RLit("session"), RCls(SpaceCh, 1, -1, TRUE)>>)), RLit("components")>>),
        \* r'show\s+(?:me\s+)?(?:all\s+)?(?:session\s+)?components'
        RCat(<<RLit("show"), RCls(SpaceCh, 1, -1, TRUE), ROpt(RCat(<<RLit("me"), RCls(SpaceCh, 1, -1, TRUE)>>)), ROpt(RCat(<<RLit("all"), RCls(SpaceCh, 1, -1, TRUE)>>)), ROpt(RCat(<<RLit("session"), RCls(SpaceCh, 1, -1, TRUE)>>)), RLit("components")>>),
        \* r'(?:what\s+)?components\s+(?:are\s+)?(?:running|active|loaded)'
        RCat(<<ROpt(RCat(<<RLit("what"), RCls(SpaceCh, 1, -1, TRUE)>>)), RLit("components"), RCls(SpaceCh, 1, -1, TRUE), ROpt(RCat(<<RLit("are"), RCls(SpaceCh, 1, -1, TRUE)>>)), RAlt(<<RLit("running"), RLit("active"), RLit("loaded")>>)>>),
        \* r'display\s+(?:all\s+)?components'
        RCat(<<RLit("display"), RCls(SpaceCh, 1, -1, TRUE), ROpt(RCat(<<RLit("all"), RCls(SpaceCh, 1, -1, TRUE)>>)), RLit("components")>>)
      >>],
      [intent |-> "save_session", patterns |-> <<
        \* r'save\s+(?:the\s+)?session'
        RCat(<<RLit("save"), RCls(SpaceCh, 1, -1, TRUE), ROpt(RCat(<<RLit("the"), RCls(SpaceCh, 1, -1, TRUE)>>)), RLit("session")>>),
        \* r'preserve\s+(?:the\s+)?session\s+(?:state)?'
        RCat(<<RLit("preserve"), RCls(SpaceCh, 1, -1, TRUE), ROpt(RCat(<<RLit("the"), RCls(SpaceCh, 1, -1, TRUE)>>)), RLit("session"), RCls(SpaceCh, 1, -1, TRUE), ROpt(RLit("state"))>>),
        \* r'store\s+(?:current\s+)?session'
        RCat(<<RLit("store"), RCls(SpaceCh, 1, -1, TRUE), ROpt(RCat(<<RLit("current"), RCls(SpaceCh, 1, -1, TRUE)>>)), RLit("session")>>),
        \* r'backup\s+(?:the\s+)?session'
        RCat(<<RLit("backup"), RCls(SpaceCh, 1, -1, TRUE), ROpt(RCat(<<RLit("the"), RCls(SpaceCh, 1, -1, TRUE)>>)), RLit("session")>>)
      >>],
      [intent |-> "restore_session", patterns |-> <<
        \* r'restore\s+(?:the\s+)?(?:last\s+)?session'
        RCat(<<RLit("restore"), RCls(SpaceCh, 1, -1, TRUE), ROpt(RCat(<<RLit("the"), RCls(SpaceCh, 1, -1, TRUE)>>)), ROpt(RCat(<<RLit("last"), RCls(SpaceCh, 1, -1, TRUE)>>)), RLit("session")>>),
        \* r'load\s+(?:the\s+)?(?:saved\s+)?session'
        RCat(<<RLit("load"), RCls(SpaceCh, 1, -1, TRUE), ROpt(RCat(<<RLit("the"), RCls(SpaceCh, 1, -1, TRUE)>>)), ROpt(RCat(<<RLit("saved"), RCls(SpaceCh, 1, -1, TRUE)>>)), RLit("session")>>),
        \* r'recover\s+(?:the\s+)?(?:previous\s+)?session'
        RCat(<<RLit("recover"), RCls(SpaceCh, 1, -1, TRUE), ROpt(RCat(<<RLit("the"), RCls(SpaceCh, 1, -1, TRUE)>>)), ROpt(RCat(<<RLit("previous"), RCls(SpaceCh, 1, -1, TRUE)>>)), RLit("session")>>),
        \* r'bring\s+back\s+(?:the\s+)?(?:last\s+)?session'
        RCat(<<RLit("bring"), RCls(SpaceCh, 1, -1, TRUE), RLit("back"), RCls(SpaceCh, 1, -1, TRUE), ROpt(RCat(<<RLit("the"), RCls(SpaceCh, 1, -1, TRUE)>>)), ROpt(RCat(<<RLit("last"), RCls(SpaceCh, 1, -1, TRUE)>>)), RLit("session")>>)
      >>],
      [intent |-> "logout", patterns |-> <<
        \* r'(?:log\s*out|logout|sign\s*out)'
        RAlt(<<RCat(<<RLit("log"), RCls(SpaceCh, 0, -1, TRUE), RLit("out")>>), RLit("logout"), RCat(<<RLit("sign"), RCls(SpaceCh, 0, -1, TRUE), RLit("out")>>)>>),
        \* r'end\s+(?:the\s+)?session'
        RCat(<<RLit("end"), RCls(SpaceCh, 1, -1, TRUE), ROpt(RCat(<<RLit("the"), RCls(SpaceCh, 1, -1, TRUE)>>)), RLit("session")>>),
        \* r'close\s+(?:the\s+)?session'
        RCat(<<RLit("close"), RCls(SpaceCh, 1, -1, TRUE), ROpt(RCat(<<RLit("the"), RCls(SpaceCh, 1, -1, TRUE)>>)), RLit("session")>>),
        \* r'exit\s+(?:the\s+)?(?:desktop|session)'
        RCat(<<RLit("exit"), RCls(SpaceCh, 1, -1, TRUE), ROpt(RCat(<<RLit("the"), RCls(SpaceCh, 1, -1, TRUE)>>)), RAlt(<<RLit("desktop"), RLit("session")>>)>>)
      >>],
      [intent |-> "shutdown", patterns |-> <<
        \* r'(?:shut\s*down|shutdown|power\s+off)'
        RAlt(<<RCat(<<RLit("shut"), RCls(SpaceCh, 0, -1, TRUE), RLit("down")>>), RLit("shutdown"), RCat(<<RLit("power"), RCls(SpaceCh, 1, -1, TRUE), RLit("off")>>)>>),
        \* r'turn\s+off\s+(?:the\s+)?(?:computer|system)'
        RCat(<<RLit("turn"), RCls(SpaceCh, 1, -1, TRUE), RLit("off"), RCls(SpaceCh, 1, -1, TRUE), ROpt(RCat(<<RLit("the"), RCls(SpaceCh, 1, -1, TRUE)>>)), RAlt(<<RLit("computer"), RLit("system")>>)>>),
        \* r'power\s+down'
        RCat(<<RLit("power"), RCls(SpaceCh, 1, -1, TRUE), RLit("down")>>)
      >>],
      [intent |-> "restart_session", patterns |-> <<
        \* r'restart\s+(?:the\s+)?(?:desktop|session)'
        RCat(<<RLit("restart"), RCls(SpaceCh, 1, -1, TRUE), ROpt(RCat(<<RLit("the"), RCls(SpaceCh, 1, -1, TRUE)>>)), RAlt(<<RLit("desktop"), RLit("session")>>)>>),
        \* r'reload\s+(?:the\s+)?(?:desktop|session)'
        RCat(<<RLit("reload"), RCls(SpaceCh, 1, -1, TRUE), ROpt(RCat(<<RLit("the"), RCls(SpaceCh, 1, -1, TRUE)>>)), RAlt(<<RLit("desktop"), RLit("session")>>)>>),
        \* r'refresh\s+(?:the\s+)?(?:desktop|session)'
        RCat(<<RLit("refresh"), RCls(SpaceCh, 1, -1, TRUE), ROpt(RCat(<<RLit("the"), RCls(SpaceCh, 1, -1, TRUE)>>)), RAlt(<<RLit("desktop"), RLit("session")>>)>>),
        \* r'reboot\s+(?:the\s+)?(?:desktop|session)'
        RCat(<<RLit("reboot"), RCls(SpaceCh, 1, -1, TRUE), ROpt(RCat(<<RLit("the"), RCls(SpaceCh, 1, -1, TRUE)>>)), RAlt(<<RLit("desktop"), RLit("session")>>)>>)
      >>]
    >>

\* r'\b(?:please|can\s+you|would\s+you|could\s+you)\b'
sm_filler_words ==
    RCat(<<RWb, RAlt(<<RLit("please"),
                       RCat(<<RLit("can"), RCls(SpaceCh, 1, -1, TRUE), RLit("you")>>),
                       RCat(<<RLit("would"), RCls(SpaceCh, 1, -1, TRUE), RLit("you")>>),
                       RCat(<<RLit("could"), RCls(SpaceCh, 1, -1, TRUE), RLit("you")>>)>>), RWb>>)

sm__preprocess_text(text) ==
    Lower(Strip(ReSub(whitespace_run, " ", ReSub(sm_filler_words, "", text, TRUE), FALSE)))

\* match.group(1) if match.groups() else None; the context is read by no
\* handler and is left out
sm__extract_intent_and_entities(text) ==
    LET hit == ScanTable(sm_intent_patterns, text)
    IN  IF hit.intent = NoIntent
        THEN [ intent |-> NoIntent, groups |-> << >>, component_target |-> NoCapture ]
        ELSE [ intent |-> hit.intent, groups |-> hit.groups,
               component_target |-> IF hit.groups # << >> THEN hit.groups[1] ELSE NoCapture ]

SessionState == { "starting", "running", "saving", "shutting_down", "crashed", "idle" }

ComponentState == { "inactive", "starting", "running", "stopping", "failed" }

\* the dataclass with its defaults: required, restart_on_failure,
\* max_restart_attempts = 3, no process, no instance, INACTIVE, restart_count 0
SessionComponent(name, module_name, class_name, required, dependencies, max_restart_attempts) ==
    [ name |-> name, executable |-> "", module_name |-> module_name,
      class_name |-> class_name, required |-> required, restart_on_failure |-> TRUE,
      max_restart_attempts |-> max_restart_attempts, dependencies |-> dependencies,
      process |-> "none", instance |-> "none", state |-> "inactive", restart_count |-> 0 ]

core_components ==
    << [k |-> "ai_shell",
        v |-> SessionComponent("AI Shell", "ai_shell", "MinimalAIApp", TRUE, << >>, 5)],
       [k |-> "desktop_manager",
        v |-> SessionComponent("Desktop Manager", "desktop_manager", "DesktopManager",
                               TRUE, << "ai_shell" >>, 3)],
       [k |-> "window_manager",
        v |-> SessionComponent("Window Manager", "window_manager",
                               "IntelligentWindowManager", FALSE, << >>, 3)],
       [k |-> "notification_system",
        v |-> SessionComponent("Notification System", "notification_system",
                               "IntelligentNotificationSystem", FALSE, << >>, 3)],
       [k |-> "application_launcher",
        v |-> SessionComponent("Application Launcher", "application_launcher",
                               "IntelligentApplicationLauncher", FALSE, << >>, 3)],
       [k |-> "file_manager",
        v |-> SessionComponent("File Manager", "ai_file_manager",
                               "IntelligentFileManager", FALSE, << >>, 3)] >>

ComponentKeys == DictKeySet(core_components)

\* __init__ and _initialize_session: the session is STARTING, the lock file
\* is written, nothing runs yet
NoSavedSession == [exists |-> FALSE, enabled |-> {}]

sm___init__(saved) ==
    [ state |-> "starting", components |-> core_components,
      shutdown_requested |-> FALSE, restart_requested |-> FALSE,
      command_history |-> 0, saved |-> saved, lock |-> TRUE ]

\* the first component, in dict order, that satisfies one of the three
\* tests, the tests tried in turn: the name equals the text, the name
\* contains it, the key contains it
_find_component_by_name(m, name) ==
    LET name_lower == Lower(Strip(name))
        d == m.components
        exact == { i \in 1..Len(d) : Lower(d[i].v.name) = name_lower }
        partial == { i \in 1..Len(d) : Contains(Lower(d[i].v.name), name_lower) }
        bykey == { i \in 1..Len(d) : Contains(Lower(d[i].k), name_lower) }
    IN  IF exact # {} THEN Capture(d[SetMin(exact)].k)
        ELSE IF partial # {} THEN Capture(d[SetMin(partial)].k)
        ELSE IF bykey # {} THEN Capture(d[SetMin(bykey)].k)
        ELSE NoCapture

\* the import of the module and the construction of the class succeed for
\* the modules in importable
_start_python_component(component, importable) ==
    IF component.module_name \in importable
    THEN [ok |-> TRUE, c |-> [component EXCEPT !.instance = "live"]]
    ELSE [ok |-> FALSE, c |-> component]

\* Popen(executable, shell=True)
_start_executable_component(component) ==
    [ok |-> TRUE, c |-> [component EXCEPT !.process = "alive"]]

\* r: the outcome of the start method the component's type selects
StartOutcome(r) ==
    IF r.ok
    THEN [ok |-> TRUE, c |-> [r.c EXCEPT !.state = "running", !.restart_count = @ + 1]]
    ELSE [ok |-> FALSE, c |-> [r.c EXCEPT !.state = "failed"]]

\* a dependency that is not running is only logged
StartOf(component, importable) ==
    IF component.module_name # "" /\ component.class_name # ""
    THEN StartOutcome(_start_python_component(component, importable))
    ELSE IF component.executable # ""
    THEN StartOutcome(_start_executable_component(component))
    ELSE [ok |-> FALSE, c |-> [component EXCEPT !.state = "failed"]]

WithComponent(m, key, r) ==
    [ok |-> r.ok, m |-> [m EXCEPT !.components = DictSet(@, key, r.c)]]

_start_component(m, key, importable) ==
    WithComponent(m, key, StartOf(DictGet(m.components, key), importable))

\* terminate the process, clean the instance up, INACTIVE
StopOf(component) ==
    [component EXCEPT !.process = "none", !.instance = "none", !.state = "inactive"]

_stop_component(m, key) ==
    [m EXCEPT !.components = DictSet(@, key, StopOf(DictGet(@, key)))]

StateOf(m, key) == DictGet(m.components, key).state

NameOf(m, key) == DictGet(m.components, key).name

ComponentNotFound(m, name) == Ret(m, "**Component not found:** '" \o name \o "'")

RestartFound(m, key, r) ==
    IF r.ok THEN Ret(r.m, "**Restarted component:** " \o NameOf(m, key))
    ELSE Ret(r.m, "**Failed to restart:** " \o NameOf(m, key))

\* if component.state == ComponentState.RUNNING: self._stop_component(component)
StoppedFirst(m, key) ==
    IF StateOf(m, key) = "running" THEN _stop_component(m, key) ELSE m

\* found: the outcome of _find_component_by_name
RestartComponent(m, name, found, importable) ==
    IF ~found.m THEN ComponentNotFound(m, name)
    ELSE RestartFound(m, found.s,
                      _start_component(StoppedFirst(m, found.s), found.s, importable))

_handle_restart_component(m, entities, importable) ==
    IF ~entities.component_target.m THEN Raise(m, NoneStrip)
    ELSE IF Strip(entities.component_target.s) = ""
    THEN Ret(m, "**Please specify which component to restart**")
    ELSE RestartComponent(m, Strip(entities.component_target.s),
                          _find_component_by_name(m, Strip(entities.component_target.s)),
                          importable)

StopComponent(m, name, found) ==
    IF ~found.m THEN ComponentNotFound(m, name)
    ELSE IF DictGet(m.components, found.s).required
    THEN Ret(m, "**Cannot stop required component:** " \o NameOf(m, found.s))
    ELSE Ret(_stop_component(m, found.s), "**Stopped component:** " \o NameOf(m, found.s))

_handle_stop_component(m, entities) ==
    IF ~entities.component_target.m THEN Raise(m, NoneStrip)
    ELSE IF Strip(entities.component_target.s) = ""
    THEN Ret(m, "**Please specify which component to stop**")
    ELSE StopComponent(m, Strip(entities.component_target.s),
                       _find_component_by_name(m, Strip(entities.component_target.s)))

StartFound(m, key, r) ==
    IF r.ok THEN Ret(r.m, "**Started component:** " \o NameOf(m, key))
    ELSE Ret(r.m, "**Failed to start:** " \o NameOf(m, key))

StartComponent(m, name, found, importable) ==
    IF ~found.m THEN ComponentNotFound(m, name)
    ELSE IF StateOf(m, found.s) = "running"
    THEN Ret(m, "**Component already running:** " \o NameOf(m, found.s))
    ELSE StartFound(m, found.s, _start_component(m, found.s, importable))

_handle_start_component(m, entities, importable) ==
    IF ~entities.component_target.m THEN Raise(m, NoneStrip)
    ELSE IF Strip(entities.component_target.s) = ""
    THEN Ret(m, "**Please specify which component to start**")
    ELSE StartComponent(m, Strip(entities.component_target.s),
                        _find_component_by_name(m, Strip(entities.component_target.s)),
                        importable)

_handle_session_info(m) == Ret(m, "**PersonalAIOS Session Information**")

_handle_list_components(m) ==
    IF m.components = << >> THEN Ret(m, "**No components loaded**")
    ELSE Ret(m, "**Session Components** (" \o IntToStr(Len(m.components)) \o " total):")

\* 'enabled': component.state != ComponentState.INACTIVE; the session is
\* RUNNING once the file is written
_handle_save_session(m) ==
    Ret([m EXCEPT !.state = "running",
                  !.saved = [exists |-> TRUE,
                             enabled |-> { k \in DictKeySet(m.components) :
                                             StateOf(m, k) # "inactive" }]],
        "**Session saved successfully**")

RECURSIVE RestoreComponents(_, _, _, _)
\* the saved components in the order of the file, which is the order of
\* the dict that was saved
RestoreComponents(m, keys, enabled, importable) ==
    IF keys = << >> THEN m
    ELSE IF Head(keys) \in enabled
    THEN IF StateOf(m, Head(keys)) # "running"
         THEN RestoreComponents(_start_component(m, Head(keys), importable).m,
                                Tail(keys), enabled, importable)
         ELSE RestoreComponents(m, Tail(keys), enabled, importable)
    ELSE IF StateOf(m, Head(keys)) = "running" /\ ~DictGet(m.components, Head(keys)).required
    THEN RestoreComponents(_stop_component(m, Head(keys)), Tail(keys), enabled, importable)
    ELSE RestoreComponents(m, Tail(keys), enabled, importable)

_handle_restore_session(m, importable) ==
    IF ~m.saved.exists THEN Ret(m, "**No saved session found**")
    ELSE Ret(RestoreComponents(m, DictKeys(m.components), m.saved.enabled, importable),
             "**Session restored**")

sm__handle_unknown_intent(m, user_input) ==
    Ret(m, "**I didn't understand:** \"" \o user_input \o "\"")

_execute_session_intent(m, intent, entities, importable) ==
    Caught(CASE intent = "session_info" -> _handle_session_info(m)
             [] intent = "restart_component" -> _handle_restart_component(m, entities, importable)
             [] intent = "stop_component" -> _handle_stop_component(m, entities)
             [] intent = "start_component" -> _handle_start_component(m, entities, importable)
             [] intent = "list_components" -> _handle_list_components(m)
             [] intent = "save_session" -> _handle_save_session(m)
             [] intent = "restore_session" -> _handle_restore_session(m, importable)
             [] OTHER -> Ret(m, "**Intent recognized** (" \o intent \o ") but implementation pending"),
           "**Session management error:** ")

RECURSIVE Visit(_, _, _)
RECURSIVE VisitAll(_, _, _)
\* visit of _resolve_component_dependencies; acc holds visited and order
Visit(d, name, acc) ==
    IF name \in acc.visited THEN acc
    ELSE LET deps == IF DictHas(d, name) THEN DictGet(d, name).dependencies ELSE << >>
             after == VisitAll(d, deps, [acc EXCEPT !.visited = @ \cup {name}])
         IN  [after EXCEPT !.order = Append(@, name)]

\* the names that are components, each visited in turn
VisitAll(d, names, acc) ==
    IF names = << >> THEN acc
    ELSE IF ~DictHas(d, Head(names)) THEN VisitAll(d, Tail(names), acc)
    ELSE VisitAll(d, Tail(names), Visit(d, Head(names), acc))

_resolve_component_dependencies(m) ==
    VisitAll(m.components, DictKeys(m.components), [visited |-> {}, order |-> << >>]).order

Reversed(s) == [i \in 1..Len(s) |-> s[Len(s) + 1 - i]]

RECURSIVE _start_components(_, _, _)
RECURSIVE StartedNext(_, _, _, _)
\* the components of start_order started in turn; a required component
\* that does not start raises
_start_components(m, start_order, importable) ==
    IF start_order = << >> THEN Ret(m, "")
    ELSE StartedNext(_start_component(m, Head(start_order), importable),
                     Head(start_order), Tail(start_order), importable)

\* r: the start of the component key
StartedNext(r, key, rest, importable) ==
    IF ~r.ok /\ DictGet(r.m.components, key).required
    THEN Raise(r.m, "Required component " \o NameOf(r.m, key) \o " failed to start")
    ELSE _start_components(r.m, rest, importable)

\* r: the outcome of _start_components
SessionStarted(r) ==
    IF r.exc THEN [r.m EXCEPT !.state = "crashed"] ELSE [r.m EXCEPT !.state = "running"]

\* the manager after start_session, which starts the monitor unless it raised
start_session(m, importable) ==
    SessionStarted(_start_components([m EXCEPT !.state = "starting"],
                                     _resolve_component_dependencies(m), importable))

\* one turn of the loop of _check_component_health, for the component key:
\* a RUNNING component whose process has exited is FAILED, and is started
\* again while restart_count < max_restart_attempts
CheckHealthOf(m, key, component, importable) ==
    IF component.state = "running" /\ component.process = "exited"
    THEN IF component.restart_on_failure
            /\ component.restart_count < component.max_restart_attempts
         THEN _start_component([m EXCEPT !.components =
                                    DictSet(@, key, [component EXCEPT !.state = "failed"])],
                               key, importable).m
         ELSE [m EXCEPT !.components =
                   DictSet(@, key, [component EXCEPT !.state = "failed"])]
    ELSE m

\* _initiate_logout up to its loop: SHUTTING_DOWN, the state saved
LogoutBegun(m) == [m EXCEPT !.state = "shutting_down"]

\* one turn of the loop of _initiate_logout
LogoutStopped(m, key) ==
    IF StateOf(m, key) = "running" THEN _stop_component(m, key) ELSE m

_cleanup_session(m) == [m EXCEPT !.lock = FALSE]

\* what the caller of _initiate_logout answers; via is the intent that
\* called it, or "signal" for the signal handler, which answers nothing
LogoutAnswer(m, via, answered) ==
    IF via = "signal" THEN answered
    ELSE IF via = "shutdown" THEN "**Shutting down system...**"
    ELSE IF m.restart_requested THEN "**Restarting PersonalAIOS session...**"
    ELSE "**Logging out...**"

LogoutIntents == { "logout", "shutdown", "restart_session" }

(***************************************************************************)
(* The session as a state machine.  sm is the manager; sm_env is what the  *)
(* machine decides: the modules that can be imported, and how many         *)
(* instances have died; sm_threads holds the position of the thread that   *)
(* runs _initiate_logout (the components it has still to look at), of the  *)
(* monitor thread (the component it looks at next), and whether the        *)
(* process still runs.  A command other than a logout is one step; a       *)
(* logout takes a step per component, and the monitor a step per           *)
(* component, so that the two interleave.  A signal is a logout that no    *)
(* command asked for.                                                      *)
(***************************************************************************)
VARIABLES sm, sm_env, sm_threads, sm_input, sm_result, sm_op

smVars == << sm, sm_env, sm_threads, sm_input, sm_result, sm_op >>

MaxCommandHistory == 1

MaxCrashes == 1

\* the components that die in the runs examined: a required one and one
\* that is not
SmMortal == { "ai_shell", "window_manager" }

SmVerbs == { "stop", "start", "restart" }

ComponentCommand(verb, key) == verb \o " " \o Lower(DictGet(core_components, key).name)

SmCommands ==
    { ComponentCommand(verb, key) : verb \in SmVerbs, key \in ComponentKeys }
        \cup { "restart session", "refresh the session", "logout", "shutdown",
               "session info", "list components", "save session", "restore session",
               "hello" }

\* the intent and the entities of each command, computed once
sm_entities ==
    [ c \in SmCommands |-> sm__extract_intent_and_entities(sm__preprocess_text(c)) ]

SmImportable ==
    { { core_components[i].v.module_name : i \in 1..Len(core_components) },
      { core_components[i].v.module_name : i \in 1..Len(core_components) } \ { "window_manager" },
      { core_components[i].v.module_name : i \in 1..Len(core_components) } \ { "desktop_manager" } }

SmThreadsIdle ==
    [ logout |-> [pc |-> "idle", todo |-> << >>, via |-> ""],
      monitor |-> [pc |-> "off", i |-> 1],
      process |-> "alive" ]

SmIdle ==
    /\ sm = sm___init__(NoSavedSession)
    /\ sm_env = [importable |-> {}, crashes |-> 0]
    /\ sm_threads = SmThreadsIdle
    /\ sm_input = ""
    /\ sm_result = ""
    /\ sm_op = "init"

\* the file an earlier session saved while three of its components ran
EarlierSavedSession ==
    [exists |-> TRUE, enabled |-> { "ai_shell", "desktop_manager", "window_manager" }]

SmInit ==
    /\ sm \in { sm___init__(NoSavedSession), sm___init__(EarlierSavedSession) }
    /\ sm_env \in { [importable |-> s, crashes |-> 0] : s \in SmImportable }
    /\ sm_threads = SmThreadsIdle
    /\ sm_input = ""
    /\ sm_result = ""
    /\ sm_op = "init"

\* start_session, once; the monitor thread starts unless it raised
SmStartSession ==
    /\ sm_threads.process = "alive"
    /\ sm_threads.monitor.pc = "off"
    /\ sm_threads.logout.pc = "idle"
    /\ sm.state = "starting"
    /\ sm' = start_session(sm, sm_env.importable)
    /\ sm_threads' = [sm_threads EXCEPT !.monitor.pc =
                          IF sm'.state = "crashed" THEN "off" ELSE "test"]
    /\ sm_op' = "start_session"
    /\ UNCHANGED << sm_env, sm_input, sm_result >>

\* the logout sequence begins: the components in reverse start order
SmLogoutBegin(m, via) ==
    /\ sm' = LogoutBegun(m)
    /\ sm_threads' = [sm_threads EXCEPT !.logout =
                          [pc |-> "stopping",
                           todo |-> Reversed(_resolve_component_dependencies(m)),
                           via |-> via]]
    /\ sm_op' = "logout"

\* e: the intent and entities of the command
SmDispatch(user_input, e) ==
    IF e.intent = NoIntent
    THEN /\ sm' = sm
         /\ sm_result' = sm__handle_unknown_intent(sm, user_input).out
         /\ sm_op' = "command"
         /\ UNCHANGED sm_threads
    ELSE IF e.intent \in LogoutIntents
    THEN /\ SmLogoutBegin([sm EXCEPT !.command_history = @ + 1,
                                    !.restart_requested =
                                        @ \/ e.intent = "restart_session"],
                          e.intent)
         /\ sm_result' = ""
    ELSE /\ \E r \in { _execute_session_intent([sm EXCEPT !.command_history = @ + 1],
                                                e.intent, e, sm_env.importable) } :
              /\ sm' = r.m
              /\ sm_result' = r.out
         /\ sm_op' = "command"
         /\ UNCHANGED sm_threads

\* process_command, on the thread that is not inside a logout
SmProcessCommand(user_input) ==
    /\ sm_threads.process = "alive"
    /\ sm_threads.logout.pc # "stopping"
    /\ sm.command_history < MaxCommandHistory
    /\ sm_input' = user_input
    /\ SmDispatch(user_input, sm_entities[user_input])
    /\ UNCHANGED sm_env

\* signal_handler: SIGTERM or SIGINT
SmSignal ==
    /\ sm_threads.process = "alive"
    /\ sm_threads.logout.pc = "idle"
    /\ SmLogoutBegin([sm EXCEPT !.shutdown_requested = TRUE], "signal")
    /\ UNCHANGED << sm_env, sm_input, sm_result >>

\* the next turn of the loop of _initiate_logout, or its end: the cleanup,
\* the thread that exits or restarts, the answer
SmLogoutStep ==
    /\ sm_threads.process = "alive"
    /\ sm_threads.logout.pc = "stopping"
    /\ IF sm_threads.logout.todo # << >>
       THEN /\ sm' = LogoutStopped(sm, Head(sm_threads.logout.todo))
            /\ sm_threads' = [sm_threads EXCEPT !.logout.todo = Tail(@)]
            /\ UNCHANGED << sm_result, sm_op >>
       ELSE /\ sm' = _cleanup_session(sm)
            /\ sm_threads' = [sm_threads EXCEPT !.logout.pc = "done"]
            /\ sm_result' = LogoutAnswer(sm, sm_threads.logout.via, sm_result)
            /\ sm_op' = "logged_out"
    /\ UNCHANGED << sm_env, sm_input >>

\* the monitor thread: the test of its loop, or the next component of
\* _check_component_health
SmMonitorStep ==
    /\ sm_threads.process = "alive"
    /\ sm_threads.monitor.pc \in { "test", "check" }
    /\ IF sm_threads.monitor.pc = "test"
       THEN /\ sm_threads' = [sm_threads EXCEPT !.monitor =
                                  IF sm.shutdown_requested
                                  THEN [pc |-> "ended", i |-> 1]
                                  ELSE [pc |-> "check", i |-> 1]]
            /\ sm' = sm
       ELSE /\ sm' = CheckHealthOf(sm, sm.components[sm_threads.monitor.i].k,
                                   sm.components[sm_threads.monitor.i].v,
                                   sm_env.importable)
            /\ sm_threads' = [sm_threads EXCEPT !.monitor =
                                  IF sm_threads.monitor.i = Len(sm.components)
                                  THEN [pc |-> "test", i |-> 1]
                                  ELSE [pc |-> "check", i |-> @.i + 1]]
    /\ UNCHANGED << sm_env, sm_input, sm_result, sm_op >>

\* a running component dies: its process exits, or the work of its
\* instance ends
SmDie(key) ==
    /\ sm_threads.process = "alive"
    /\ sm_env.crashes < MaxCrashes
    /\ StateOf(sm, key) = "running"
    /\ \/ DictGet(sm.components, key).process = "alive"
       \/ DictGet(sm.components, key).instance = "live"
    /\ sm' = [sm EXCEPT !.components =
                 DictSet(@, key,
                         IF DictGet(sm.components, key).process = "alive"
                         THEN [DictGet(sm.components, key) EXCEPT !.process = "exited"]
                         ELSE [DictGet(sm.components, key) EXCEPT !.instance = "dead"])]
    /\ sm_env' = [sm_env EXCEPT !.crashes = @ + 1]
    /\ UNCHANGED << sm_threads, sm_input, sm_result, sm_op >>

\* the thread the logout left behind: os._exit, or os.execv
SmExit ==
    /\ sm_threads.process = "alive"
    /\ sm_threads.logout.pc = "done"
    /\ sm_threads' = [sm_threads EXCEPT !.process = "exited"]
    /\ UNCHANGED << sm, sm_env, sm_input, sm_result, sm_op >>

(***************************************************************************)
(* Claims about the session manager.                                       *)
(***************************************************************************)
LogoutHasBegun == sm_threads.logout.pc # "idle"

NoneRunning(m) == \A k \in ComponentKeys : StateOf(m, k) # "running"

\* the component is started in the step: it becomes RUNNING, or it is
\* started once more
StartedInStep(k) ==
    \/ StateOf(sm', k) = "running" /\ StateOf(sm, k) # "running"
    \/ DictGet(sm'.components, k).restart_count # DictGet(sm.components, k).restart_count

\* C16: once a logout has begun no step starts or restarts a component,
\* and when the logout sequence has finished no component is RUNNING,
\* whatever the monitor thread does in between.
C16_NoStartAfterLogout ==
    [][ LogoutHasBegun
          => /\ \A k \in ComponentKeys : ~StartedInStep(k)
             /\ (sm_threads'.logout.pc = "done" => NoneRunning(sm')) ]_smVars

\* C19: for every component name N, "stop N", "start N" and "restart N"
\* answer about the component named N and leave every other component as
\* it was.
C19_ComponentCommandsHitTheirTarget ==
    [][ \A key \in ComponentKeys : \A verb \in SmVerbs :
          (sm_op' = "command" /\ sm_input' = ComponentCommand(verb, key)
             /\ sm.command_history < MaxCommandHistory)
              => /\ Contains(sm_result', DictGet(core_components, key).name)
                 /\ \A other \in ComponentKeys \ {key} :
                      DictGet(sm'.components, other) = DictGet(sm.components, other) ]_smVars

\* C20: "restart session" sets restart_requested and begins the logout
\* sequence; the step itself stops or starts no component.
C20_RestartSessionRestartsSession ==
    [][ (sm_input' = "restart session" /\ sm_op' \in {"command", "logout"}
           /\ sm_threads.logout.pc # "stopping"
           /\ sm'.command_history = sm.command_history + 1)
          => /\ sm'.restart_requested
             /\ sm_threads'.logout.pc = "stopping"
             /\ sm'.components = sm.components ]_smVars

ComponentDied(k) ==
    /\ StateOf(sm, k) \in { "running", "failed" }
    /\ \/ DictGet(sm.components, k).instance = "dead"
       \/ DictGet(sm.components, k).process = "exited"
    /\ DictGet(sm.components, k).restart_on_failure
    /\ DictGet(sm.components, k).restart_count < DictGet(sm.components, k).max_restart_attempts

ComponentBack(k) ==
    /\ StateOf(sm, k) = "running"
    /\ DictGet(sm.components, k).instance # "dead"
    /\ DictGet(sm.components, k).process # "exited"

\* the component was stopped, or the monitor has ended, or the process has
ComponentWithdrawn(k) ==
    \/ StateOf(sm, k) \in { "inactive", "stopping" }
    \/ sm_threads.monitor.pc \in { "off", "ended" }
    \/ sm_threads.process = "exited"

\* C17: a component with restart_on_failure that died while RUNNING with
\* restart attempts left is eventually RUNNING again, or its restart_count
\* reaches max_restart_attempts, unless it was stopped or the monitor ended.
C17_DeadComponentComesBack ==
    \A k \in SmMortal :
        ComponentDied(k)
            ~> \/ ComponentBack(k)
               \/ DictGet(sm.components, k).restart_count
                      >= DictGet(sm.components, k).max_restart_attempts
               \/ ComponentWithdrawn(k)

(***************************************************************************)
(* notification_system.py: IntelligentNotificationSystem.  The system is a *)
(* record                                                                  *)
(*   notifications         the dict id -> SmartNotification                *)
(*   notification_history  the notifications dismissed, oldest first       *)
(*   notification_queue    the queue the processor thread renders from     *)
(*   do_not_disturb        user_preferences['do_not_disturb']              *)
(*   scheduled             the delivery threads that are still asleep      *)
(*   command_history       the number of entries of self.command_history   *)
(* Time is the clock in milliseconds since the system was built.  The      *)
(* entities keep what the handlers read: the groups, the type of the       *)
(* context and the priority.  Responses are abbreviated to their heading.  *)
(***************************************************************************)
\* IntelligentNotificationSystem.__init__: self.intent_patterns
ns_intent_patterns ==
    <<
      [intent |-> "show_notification", patterns |-> <<
        \* r'(?:show|display|create|send)\s+(?:a\s+)?notification\s+(?:saying\s+)?["\']?(.+?)["\']?'
        RCat(<<RAlt(<<RLit("show"), RLit("display"), RLit("create"), RLit("send")>>), RCls(SpaceCh, 1, -1, TRUE), ROpt(RCat(<<RLit("a"), RCls(SpaceCh, 1, -1, TRUE)>>)), RLit("notification"), RCls(SpaceCh, 1, -1, TRUE), ROpt(RCat(<<RLit("saying"), RCls(SpaceCh, 1, -1, TRUE)>>)), RCls(Cls(FALSE, "\"'", {}), 0, 1, TRUE), RGrp(RCls(AnyCh, 1, -1, FALSE)), RCls(Cls(FALSE, "\"'", {}), 0, 1, TRUE)>>),
        \* r'notify\s+(?:me\s+)?(?:about\s+)?["\']?(.+?)["\']?'
        RCat(<<RLit("notify"), RCls(SpaceCh, 1, -1, TRUE), ROpt(RCat(<<RLit("me"), RCls(SpaceCh, 1, -1, TRUE)>>)), ROpt(RCat(<<RLit("about"), RCls(SpaceCh, 1, -1, TRUE)>>)), RCls(Cls(FALSE, "\"'", {}), 0, 1, TRUE), RGrp(RCls(AnyCh, 1, -1, FALSE)), RCls(Cls(FALSE, "\"'", {}), 0, 1, TRUE)>>),
        \* r'alert\s+(?:me\s+)?(?:about\s+)?["\']?(.+?)["\']?'
        RCat(<<RLit("alert"), RCls(SpaceCh, 1, -1, TRUE), ROpt(RCat(<<RLit("me"), RCls(SpaceCh, 1, -1, TRUE)>>)), ROpt(RCat(<<RLit("about"), RCls(SpaceCh, 1, -1, TRUE)>>)), RCls(Cls(FALSE, "\"'", {}), 0, 1, TRUE), RGrp(RCls(AnyCh, 1, -1, FALSE)), RCls(Cls(FALSE, "\"'", {}), 0, 1, TRUE)>>),
        \* r'remind\s+(?:me\s+)?(?:about\s+)?["\']?(.+?)["\']?'
        RCat(<<RLit("remind"), RCls(SpaceCh, 1, -1, TRUE), ROpt(RCat(<<RLit("me"), RCls(SpaceCh, 1, -1, TRUE)>>)), ROpt(RCat(<<RLit("about"), RCls(SpaceCh, 1, -1, TRUE)>>)), RCls(Cls(FALSE, "\"'", {}), 0, 1, TRUE), RGrp(RCls(AnyCh, 1, -1, FALSE)), RCls(Cls(FALSE, "\"'", {}), 0, 1, TRUE)>>),
        \* r'popup\s+(?:saying\s+)?["\']?(.+?)["\']?'
        RCat(<<RLit("popup"), RCls(SpaceCh, 1, -1, TRUE), ROpt(RCat(<<RLit("saying"), RCls(SpaceCh, 1, -1, TRUE)>>)), RCls(Cls(FALSE, "\"'", {}), 0, 1, TRUE), RGrp(RCls(AnyCh, 1, -1, FALSE)), RCls(Cls(FALSE, "\"'", {}), 0, 1, TRUE)>>)
      >>],
      [intent |-> "dismiss_notification", patterns |-> <<
        \* r'dismiss\s+(?:the\s+)?notification(?:\s+about\s+(.+))?'
        RCat(<<RLit("dismiss"), RCls(SpaceCh, 1, -1, TRUE), ROpt(RCat(<<RLit("the"), RCls(SpaceCh, 1, -1, TRUE)>>)), RLit("notification"), ROpt(RCat(<<RCls(SpaceCh, 1, -1, TRUE), RLit("about"), RCls(SpaceCh, 1, -1, TRUE), RGrp(RCls(AnyCh, 1, -1, TRUE))>>))>>),
        \* r'close\s+(?:the\s+)?notification(?:\s+about\s+(.+))?'
        RCat(<<RLit("close"), RCls(SpaceCh, 1, -1, TRUE), ROpt(RCat(<<RLit("the"), RCls(SpaceCh, 1, -1, TRUE)>>)), RLit("notification"), ROpt(RCat(<<RCls(SpaceCh, 1, -1, TRUE), RLit("about"), RCls(SpaceCh, 1, -1, TRUE), RGrp(RCls(AnyCh, 1, -1, TRUE))>>))>>),
        \* r'clear\s+(?:the\s+)?notification(?:\s+about\s+(.+))?'
        RCat(<<RLit("clear"), RCls(SpaceCh, 1, -1, TRUE), ROpt(RCat(<<RLit("the"), RCls(SpaceCh, 1, -1, TRUE)>>)), RLit("notification"), ROpt(RCat(<<RCls(SpaceCh, 1, -1, TRUE), RLit("about"), RCls(SpaceCh, 1, -1, TRUE), RGrp(RCls(AnyCh, 1, -1, TRUE))>>))>>),
        \* r'hide\s+(?:the\s+)?notification(?:\s+about\s+(.+))?'
        RCat(<<RLit("hide"), RCls(SpaceCh, 1, -1, TRUE), ROpt(RCat(<<RLit("the"), RCls(SpaceCh, 1, -1, TRUE)>>)), RLit("notification"), ROpt(RCat(<<RCls(SpaceCh, 1, -1, TRUE), RLit("about"), RCls(SpaceCh, 1, -1, TRUE), RGrp(RCls(AnyCh, 1, -1, TRUE))>>))>>),
        \* r'remove\s+(?:the\s+)?notification(?:\s+about\s+(.+))?'
        RCat(<<RLit("remove"), RCls(SpaceCh, 1, -1, TRUE), ROpt(RCat(<<RLit("the"), RCls(SpaceCh, 1, -1, TRUE)>>)), RLit("notification"), ROpt(RCat(<<RCls(SpaceCh, 1, -1, TRUE), RLit("about"), RCls(SpaceCh, 1, -1, TRUE), RGrp(RCls(AnyCh, 1, -1, TRUE))>>))>>)
      >>],
      [intent |-> "list_notifications", patterns |-> <<
        \* r'list\s+(?:all\s+)?notifications'
        RCat(<<RLit("list"), RCls(SpaceCh, 1, -1, TRUE), ROpt(RCat(<<RLit("all"), RCls(SpaceCh, 1, -1, TRUE)>>)), RLit("notifications")>>),
        \* r'show\s+(?:me\s+)?(?:all\s+)?notifications'
        RCat(<<RLit("show"), RCls(SpaceCh, 1, -1, TRUE), ROpt(RCat(<<RLit("me"), RCls(SpaceCh, 1, -1, TRUE)>>)), ROpt(RCat(<<RLit("all"), RCls(SpaceCh, 1, -1, TRUE)>>)), RLit("notifications")>>),
        \* r'what\s+notifications\s+(?:do\s+i\s+have|are\s+there)'
        RCat(<<RLit("what"), RCls(SpaceCh, 1, -1, TRUE), RLit("notifications"), RCls(SpaceCh, 1, -1, TRUE), RAlt(<<RCat(<<RLit("do"), RCls(SpaceCh, 1, -1, TRUE), RLit("i"), RCls(SpaceCh, 1, -1, TRUE), RLit("have")>>), RCat(<<RLit("are"), RCls(SpaceCh, 1, -1, TRUE), RLit("there")>>)>>)>>),
        \* r'display\s+(?:all\s+)?notifications'
        RCat(<<RLit("display"), RCls(SpaceCh, 1, -1, TRUE), ROpt(RCat(<<RLit("all"), RCls(SpaceCh, 1, -1, TRUE)>>)), RLit("notifications")>>),
        \* r'notification\s+history'
        RCat(<<RLit("notification"), RCls(SpaceCh, 1, -1, TRUE), RLit("history")>>)
      >>],
      [intent |-> "set_priority", patterns |-> <<
        \* r'set\s+priority\s+(?:of\s+)?(?:notification\s+)?(?:about\s+)?(.+?)\s+to\s+(low|normal|high|critical|urgent)'
        RCat(<<RLit("set"), RCls(SpaceCh, 1, -1, TRUE), RLit("priority"), RCls(SpaceCh, 1, -1, TRUE), ROpt(RCat(<<RLit("of"), RCls(SpaceCh, 1, -1, TRUE)>>)), ROpt(RCat(<<RLit("notification"), RCls(SpaceCh, 1, -1, TRUE)>>)), ROpt(RCat(<<RLit("about"), RCls(SpaceCh, 1, -1, TRUE)>>)), RGrp(RCls(AnyCh, 1, -1, FALSE)), RCls(SpaceCh, 1, -1, TRUE), RLit("to"), RCls(SpaceCh, 1, -1, TRUE), RGrp(RAlt(<<RLit("low"), RLit("normal"), RLit("high"), RLit("critical"), RLit("urgent")>>))>>),
        \* r'make\s+(?:notification\s+)?(?:about\s+)?(.+?)\s+(low|normal|high|critical|urgent)\s+priority'
        RCat(<<RLit("make"), RCls(SpaceCh, 1, -1, TRUE), ROpt(RCat(<<RLit("notification"), RCls(SpaceCh, 1, -1, TRUE)>>)), ROpt(RCat(<<RLit("about"), RCls(SpaceCh, 1, -1, TRUE)>>)), RGrp(RCls(AnyCh, 1, -1, FALSE)), RCls(SpaceCh, 1, -1, TRUE), RGrp(RAlt(<<RLit("low"), RLit("normal"), RLit("high"), RLit("critical"), RLit("urgent")>>)), RCls(SpaceCh, 1, -1, TRUE), RLit("priority")>>),
        \* r'(?:notification\s+)?(?:about\s+)?(.+?)\s+(?:should\s+be\s+)?(low|normal|high|critical|urgent)\s+priority'
        RCat(<<ROpt(RCat(<<RLit("notification"), RCls(SpaceCh, 1, -1, TRUE)>>)), ROpt(RCat(<<RLit("about"), RCls(SpaceCh, 1, -1, TRUE)>>)), RGrp(RCls(AnyCh, 1, -1, FALSE)), RCls(SpaceCh, 1, -1, TRUE), ROpt(RCat(<<RLit("should"), RCls(SpaceCh, 1, -1, TRUE), RLit("be"), RCls(SpaceCh, 1, -1, TRUE)>>)), RGrp(RAlt(<<RLit("low"), RLit("normal"), RLit("high"), RLit("critical"), RLit("urgent")>>)), RCls(SpaceCh, 1, -1, TRUE), RLit("priority")>>)
      >>],
      [intent |-> "do_not_disturb", patterns |-> <<
        \* r'(?:enable|turn\s+on|activate)\s+(?:do\s+not\s+disturb|dnd|quiet\s+mode)'
        RCat(<<RAlt(<<RLit("enable"), RCat(<<RLit("turn"), RCls(SpaceCh, 1, -1, TRUE), RLit("on")>>), RLit("activate")>>), RCls(SpaceCh, 1, -1, TRUE), RAlt(<<RCat(<<RLit("do"), RCls(SpaceCh, 1, -1, TRUE), RLit("not"), RCls(SpaceCh, 1, -1, TRUE), RLit("disturb")>>), RLit("dnd"), RCat(<<RLit("quiet"), RCls(SpaceCh, 1, -1, TRUE), RLit("mode")>>)>>)>>),
        \* r'(?:disable|turn\s+off|deactivate)\s+(?:do\s+not\s+disturb|dnd|quiet\s+mode)'
        RCat(<<RAlt(<<RLit("disable"), RCat(<<RLit("turn"), RCls(SpaceCh, 1, -1, TRUE), RLit("off")>>), RLit("deactivate")>>), RCls(SpaceCh, 1, -1, TRUE), RAlt(<<RCat(<<RLit("do"), RCls(SpaceCh, 1, -1, TRUE), RLit("not"), RCls(SpaceCh, 1, -1, TRUE), RLit("disturb")>>), RLit("dnd"), RCat(<<RLit("quiet"), RCls(SpaceCh, 1, -1, TRUE), RLit("mode")>>)>>)>>),
        \* r'(?:set\s+)?(?:do\s+not\s+disturb|dnd|quiet\s+mode)\s+(?:to\s+)?(on|off|enabled|disabled)'
        RCat(<<ROpt(RCat(<<RLit("set"), RCls(SpaceCh, 1, -1, TRUE)>>)), RAlt(<<RCat(<<RLit("do"), RCls(SpaceCh, 1, -1, TRUE), RLit("not"), RCls(SpaceCh, 1, -1, TRUE), RLit("disturb")>>), RLit("dnd"), RCat(<<RLit("quiet"), RCls(SpaceCh, 1, -1, TRUE), RLit("mode")>>)>>), RCls(SpaceCh, 1, -1, TRUE), ROpt(RCat(<<RLit("to"), RCls(SpaceCh, 1, -1, TRUE)>>)), RGrp(RAlt(<<RLit("on"), RLit("off"), RLit("enabled"), RLit("disabled")>>))>>),
        \* r'(?:i\s+)?(?:don\'t\s+)?want\s+(?:to\s+be\s+)?(?:disturbed|interrupted)'
        RCat(<<ROpt(RCat(<<RLit("i"), RCls(SpaceCh, 1, -1, TRUE)>>)), ROpt(RCat(<<RLit("don't"), RCls(SpaceCh, 1, -1, TRUE)>>)), RLit("want"), RCls(SpaceCh, 1, -1, TRUE), ROpt(RCat(<<RLit("to"), RCls(SpaceCh, 1, -1, TRUE), RLit("be"), RCls(SpaceCh, 1, -1, TRUE)>>)), RAlt(<<RLit("disturbed"), RLit("interrupted")>>)>>),
        \* r'silence\s+(?:all\s+)?notifications'
        RCat(<<RLit("silence"), RCls(SpaceCh, 1, -1, TRUE), ROpt(RCat(<<RLit("all"), RCls(SpaceCh, 1, -1, TRUE)>>)), RLit("notifications")>>)
      >>],
      [intent |-> "schedule_notification", patterns |-> <<
        \* r'(?:schedule|set)\s+(?:a\s+)?(?:notification|reminder|alert)\s+(?:for\s+)?(.+?)\s+(?:at|in|after)\s+(.+)'
        RCat(<<RLit("s"), RAlt(<<RLit("chedule"), RLit("et")>>), RCls(SpaceCh, 1, -1, TRUE), ROpt(RCat(<<RLit("a"), RCls(SpaceCh, 1, -1, TRUE)>>)), RAlt(<<RLit("notification"), RLit("reminder"), RLit("alert")>>), RCls(SpaceCh, 1, -1, TRUE), ROpt(RCat(<<RLit("for"), RCls(SpaceCh, 1, -1, TRUE)>>)), RGrp(RCls(AnyCh, 1, -1, FALSE)), RCls(SpaceCh, 1, -1, TRUE), RAlt(<<RLit("at"), RLit("in"), RLit("after")>>), RCls(SpaceCh, 1, -1, TRUE), RGrp(RCls(AnyCh, 1, -1, TRUE))>>),
        \* r'remind\s+(?:me\s+)?(?:about\s+)?(.+?)\s+(?:at|in|after)\s+(.+)'
        RCat(<<RLit("remind"), RCls(SpaceCh, 1, -1, TRUE), ROpt(RCat(<<RLit("me"), RCls(SpaceCh, 1, -1, TRUE)>>)), ROpt(RCat(<<RLit("about"), RCls(SpaceCh, 1, -1, TRUE)>>)), RGrp(RCls(AnyCh, 1, -1, FALSE)), RCls(SpaceCh, 1, -1, TRUE), RAlt(<<RLit("at"), RLit("in"), RLit("after")>>), RCls(SpaceCh, 1, -1, TRUE), RGrp(RCls(AnyCh, 1, -1, TRUE))>>),
        \* r'notify\s+(?:me\s+)?(?:about\s+)?(.+?)\s+(?:at|in|after)\s+(.+)'
        RCat(<<RLit("notify"), RCls(SpaceCh, 1, -1, TRUE), ROpt(RCat(<<RLit("me"), RCls(SpaceCh, 1, -1, TRUE)>>)), ROpt(RCat(<<RLit("about"), RCls(SpaceCh, 1, -1, TRUE)>>)), RGrp(RCls(AnyCh, 1, -1, FALSE)), RCls(SpaceCh, 1, -1, TRUE), RAlt(<<RLit("at"), RLit("in"), RLit("after")>>), RCls(SpaceCh, 1, -1, TRUE), RGrp(RCls(AnyCh, 1, -1, TRUE))>>),
        \* r'alert\s+(?:me\s+)?(?:about\s+)?(.+?)\s+(?:at|in|after)\s+(.+)'
        RCat(<<RLit("alert"), RCls(SpaceCh, 1, -1, TRUE), ROpt(RCat(<<RLit("me"), RCls(SpaceCh, 1, -1, TRUE)>>)), ROpt(RCat(<<RLit("about"), RCls(SpaceCh, 1, -1, TRUE)>>)), RGrp(RCls(AnyCh, 1, -1, FALSE)), RCls(SpaceCh, 1, -1, TRUE), RAlt(<<RLit("at"), RLit("in"), RLit("after")>>), RCls(SpaceCh, 1, -1, TRUE), RGrp(RCls(AnyCh, 1, -1, TRUE))>>)
      >>],
      [intent |-> "notification_settings", patterns |-> <<
        \* r'(?:notification\s+)?settings'
        RCat(<<ROpt(RCat(<<RLit("notification"), RCls(SpaceCh, 1, -1, TRUE)>>)), RLit("settings")>>),
        \* r'configure\s+notifications'
        RCat(<<RLit("configure"), RCls(SpaceCh, 1, -1, TRUE), RLit("notifications")>>),
        \* r'notification\s+preferences'
        RCat(<<RLit("notification"), RCls(SpaceCh, 1, -1, TRUE), RLit("preferences")>>),
        \* r'change\s+notification\s+settings'
        RCat(<<RLit("change"), RCls(SpaceCh, 1, -1, TRUE), RLit("notification"), RCls(SpaceCh, 1, -1, TRUE), RLit("settings")>>),
        \* r'manage\s+notifications'
        RCat(<<RLit("manage"), RCls(SpaceCh, 1, -1, TRUE), RLit("notifications")>>)
      >>],
      [intent |-> "summarize_notifications", patterns |-> <<
        \* r'summarize\s+(?:my\s+)?notifications'
        RCat(<<RLit("summarize"), RCls(SpaceCh, 1, -1, TRUE), ROpt(RCat(<<RLit("my"), RCls(SpaceCh, 1, -1, TRUE)>>)), RLit("notifications")>>),
        \* r'give\s+(?:me\s+)?(?:a\s+)?(?:summary\s+of\s+)?(?:my\s+)?notifications'
        RCat(<<RLit("give"), RCls(SpaceCh, 1, -1, TRUE), ROpt(RCat(<<RLit("me"), RCls(SpaceCh, 1, -1, TRUE)>>)), ROpt(RCat(<<RLit("a"), RCls(SpaceCh, 1, -1, TRUE)>>)), ROpt(RCat(<<RLit("summary"), RCls(SpaceCh, 1, -1, TRUE), RLit("of"), RCls(SpaceCh, 1, -1, TRUE)>>)), ROpt(RCat(<<RLit("my"), RCls(SpaceCh, 1, -1, TRUE)>>)), RLit("notifications")>>),
        \* r'what\s+(?:are\s+)?(?:my\s+)?(?:important\s+)?notifications\s+about'
        RCat(<<RLit("what"), RCls(SpaceCh, 1, -1, TRUE), ROpt(RCat(<<RLit("are"), RCls(SpaceCh, 1, -1, TRUE)>>)), ROpt(RCat(<<RLit("my"), RCls(SpaceCh, 1, -1, TRUE)>>)), ROpt(RCat(<<RLit("important"), RCls(SpaceCh, 1, -1, TRUE)>>)), RLit("notifications"), RCls(SpaceCh, 1, -1, TRUE), RLit("about")>>),
        \* r'brief\s+(?:me\s+)?(?:on\s+)?(?:my\s+)?notifications'
        RCat(<<RLit("brief"), RCls(SpaceCh, 1, -1, TRUE), ROpt(RCat(<<RLit("me"), RCls(SpaceCh, 1, -1, TRUE)>>)), ROpt(RCat(<<RLit("on"), RCls(SpaceCh, 1, -1, TRUE)>>)), ROpt(RCat(<<RLit("my"), RCls(SpaceCh, 1, -1, TRUE)>>)), RLit("notifications")>>)
      >>]
    >>

Second == 1000

Minute == 60 * Second

Hour == 60 * Minute

Day == 24 * Hour

\* auto_dismiss notifications go after 5 minutes
AutoDismissAfter == 300 * Second

NotificationPriority == { "low", "normal", "high", "critical", "urgent" }

\* user_preferences['priority_filters']
priority_filters == [ p \in NotificationPriority |-> p # "low" ]

\* user_preferences['quiet_hours'], as times of the day
quiet_hours == [ start |-> 22 * Hour, end |-> 8 * Hour ]

ns__preprocess_text(text) ==
    Lower(Strip(ReSub(whitespace_run, " ", ReSub(sm_filler_words, "", text, TRUE), FALSE)))

\* context['type'], "" where the key is not set
ContextType(text) ==
    IF AnyIn(<< "error", "failed", "problem" >>, text) THEN "error"
    ELSE IF AnyIn(<< "warning", "caution", "careful" >>, text) THEN "warning"
    ELSE IF AnyIn(<< "info", "information", "fyi" >>, text) THEN "info"
    ELSE IF AnyIn(<< "reminder", "remember", "don't forget" >>, text) THEN "reminder"
    ELSE ""

_detect_priority(text) ==
    IF AnyIn(<< "critical", "emergency", "urgent" >>, text) THEN "critical"
    ELSE IF AnyIn(<< "high", "important", "asap" >>, text) THEN "high"
    ELSE IF AnyIn(<< "low", "minor", "info" >>, text) THEN "low"
    ELSE "normal"

ns__extract_intent_and_entities(text) ==
    LET hit == ScanTable(ns_intent_patterns, text)
    IN  IF hit.intent = NoIntent
        THEN [ intent |-> NoIntent, groups |-> << >>, type |-> "", priority |-> "normal" ]
        ELSE [ intent |-> hit.intent, groups |-> hit.groups,
               type |-> ContextType(text), priority |-> _detect_priority(text) ]

ns___init__ ==
    [ notifications |-> << >>, notification_history |-> << >>,
      notification_queue |-> << >>, do_not_disturb |-> FALSE,
      scheduled |-> {}, command_history |-> 0 ]

\* message[:50], and '...' after it if the message is longer
Shortened(message) ==
    IF Len(message) > 50 THEN SubSeq(message, 1, 50) \o "..." ELSE message

_generate_smart_title(message, type) ==
    IF type = "reminder" THEN "Reminder: " \o Shortened(message)
    ELSE IF type = "error" THEN "Error: " \o Shortened(message)
    ELSE IF type = "warning" THEN "Warning: " \o Shortened(message)
    ELSE "PersonalAIOS: " \o Shortened(message)

_determine_notification_type(type) ==
    IF type \in { "reminder", "error", "warning", "info" } THEN type ELSE "ai_generated"

\* the dataclass; expires_at 0 is None
SmartNotification(id, title, message, priority, type, source, now, expires_at, persistent, auto_dismiss) ==
    [ id |-> id, title |-> title, message |-> message, priority |-> priority,
      notification_type |-> type, source |-> source, timestamp |-> now,
      expires_at |-> expires_at, persistent |-> persistent, auto_dismiss |-> auto_dismiss ]

\* the time of the day at the clock time now, the system built at built_at
TimeOfDay(now, built_at) == (built_at + now) % Day

\* the quiet hours cross midnight when they start after they end
_is_quiet_time(time_of_day) ==
    IF quiet_hours.start <= quiet_hours.end
    THEN quiet_hours.start <= time_of_day /\ time_of_day <= quiet_hours.end
    ELSE time_of_day >= quiet_hours.start \/ time_of_day <= quiet_hours.end

_should_show_notification(m, notification, time_of_day) ==
    IF m.do_not_disturb THEN notification.priority \in { "critical", "urgent" }
    ELSE IF ~priority_filters[notification.priority] THEN FALSE
    ELSE IF _is_quiet_time(time_of_day)
    THEN notification.priority \in { "critical", "urgent" }
    ELSE TRUE

_queue_notification(m, notification) ==
    [m EXCEPT !.notification_queue = Append(@, notification)]

\* the notification _create_notification builds for the message
CreatedNotification(message, entities, now) ==
    SmartNotification("notification_" \o IntToStr(now),
                      _generate_smart_title(message, IF entities.type = "" THEN "info"
                                                     ELSE entities.type),
                      message, entities.priority,
                      _determine_notification_type(entities.type), "PersonalAIOS",
                      now, 0, FALSE, entities.priority = "low")

NotificationQueued == "**Notification queued** (Do Not Disturb is active)"

\* the queue and the dict take the notification
Delivered(m, notification) ==
    [_queue_notification(m, notification) EXCEPT
        !.notifications = DictSet(@, notification.id, notification)]

CreateNotification(m, notification, time_of_day) ==
    IF _should_show_notification(m, notification, time_of_day)
    THEN Ret(Delivered(m, notification), "**Notification created:** " \o notification.title)
    ELSE Ret(m, NotificationQueued)

_create_notification(m, entities, now, time_of_day) ==
    IF NoFirstGroup(entities.groups)
    THEN Ret(m, "**Please specify the notification message**")
    ELSE CreateNotification(m, CreatedNotification(Strip(entities.groups[1].s), entities, now),
                            time_of_day)

_dismiss_notification_by_id(m, notification_id) ==
    IF DictHas(m.notifications, notification_id)
    THEN [m EXCEPT !.notifications = DictDel(@, notification_id),
                   !.notification_history =
                       Append(@, DictGet(m.notifications, notification_id))]
    ELSE m

RECURSIVE DismissAll(_, _)
DismissAll(m, ids) ==
    IF ids = << >> THEN m
    ELSE DismissAll(_dismiss_notification_by_id(m, Head(ids)), Tail(ids))

\* the ids, in dict order, of the notifications whose title or message
\* holds the search term
Matching(m, search_term) ==
    LET d == m.notifications
        hit(i) == \/ Contains(Lower(d[i].v.title), Lower(search_term))
                  \/ Contains(Lower(d[i].v.message), Lower(search_term))
        RECURSIVE From(_)
        From(i) == IF i > Len(d) THEN << >>
                   ELSE IF hit(i) THEN << d[i].k >> \o From(i + 1) ELSE From(i + 1)
    IN  From(1)

DismissMatching(m, search_term, ids) ==
    IF ids # << >>
    THEN Ret(DismissAll(m, ids), "**Dismissed " \o IntToStr(Len(ids))
                                    \o " notification(s)** matching '" \o search_term \o "'")
    ELSE Ret(m, "**No notifications found** matching '" \o search_term \o "'")

_dismiss_notification(m, entities) ==
    IF ~NoFirstGroup(entities.groups)
    THEN DismissMatching(m, Strip(entities.groups[1].s),
                         Matching(m, Strip(entities.groups[1].s)))
    ELSE Ret(DismissAll(m, DictKeys(m.notifications)),
             "**Dismissed all notifications** (" \o IntToStr(Len(m.notifications)) \o " total)")

_list_notifications(m) ==
    IF m.notifications = << >> THEN Ret(m, "**No active notifications**")
    ELSE Ret(m, "**Active Notifications** (" \o IntToStr(Len(m.notifications)) \o " total):")

\* the first search that matches decides; the number is its first group
InSearch(unit) ==
    RCat(<<RLit("in"), RCls(SpaceCh, 1, -1, TRUE), RGrp(RCls(DigitCh, 1, -1, TRUE)),
           RCls(SpaceCh, 1, -1, TRUE), RGrp(unit)>>)

\* r'in\s+(\d+)\s+(minute|minutes|min|mins)'
in_minutes == InSearch(RAlt(<<RLit("minute"), RLit("minutes"), RLit("min"), RLit("mins")>>))

\* r'in\s+(\d+)\s+(hour|hours|hr|hrs)'
in_hours == InSearch(RAlt(<<RLit("hour"), RLit("hours"), RLit("hr"), RLit("hrs")>>))

\* r'in\s+(\d+)\s+(day|days)'
in_days == InSearch(RAlt(<<RLit("day"), RLit("days")>>))

\* r'at\s+(\d{1,2}):(\d{2})'
at_clock ==
    RCat(<<RLit("at"), RCls(SpaceCh, 1, -1, TRUE), RGrp(RCls(DigitCh, 1, 2, TRUE)),
           RLit(":"), RGrp(RCls(DigitCh, 2, 2, TRUE))>>)

\* today at the hour and minute, or tomorrow if that is past
AtClock(hour, minute, now, built_at) ==
    LET target == now - TimeOfDay(now, built_at) + hour * Hour + minute * Minute
    IN  IF target < now THEN target + Day ELSE target

\* the four searches of _parse_time_specification in turn
ParsedTime(mins, hours, days, at, now, built_at) ==
    IF mins.found THEN Some(now + DigitsToInt(mins.g[1].s) * Minute)
    ELSE IF hours.found THEN Some(now + DigitsToInt(hours.g[1].s) * Hour)
    ELSE IF days.found THEN Some(now + DigitsToInt(days.g[1].s) * Day)
    ELSE IF at.found
    THEN Some(AtClock(DigitsToInt(at.g[1].s), DigitsToInt(at.g[2].s), now, built_at))
    ELSE Nothing

_parse_time_specification(time_spec, now, built_at) ==
    ParsedTime(ReSearch(in_minutes, Lower(time_spec), FALSE),
               ReSearch(in_hours, Lower(time_spec), FALSE),
               ReSearch(in_days, Lower(time_spec), FALSE),
               ReSearch(at_clock, time_spec, FALSE), now, built_at)

\* the thread that sleeps until the delivery time
_schedule_notification_delivery(m, notification, delivery_time) ==
    [m EXCEPT !.scheduled = @ \cup { [n |-> notification, at |-> delivery_time] }]

ScheduleAt(m, message, time_spec, entities, now, schedule_time) ==
    IF ~schedule_time.some
    THEN Ret(m, "**Invalid time specification:** '" \o time_spec \o "'")
    ELSE Ret(_schedule_notification_delivery(
                 m,
                 SmartNotification("scheduled_" \o IntToStr(now), "Reminder: " \o message,
                                   message, entities.priority, "reminder",
                                   "PersonalAIOS Scheduler", now, schedule_time.v,
                                   TRUE, FALSE),
                 schedule_time.v),
             "**Notification scheduled:** " \o message)

_schedule_notification(m, entities, now, built_at) ==
    IF Len(entities.groups) < 2
    THEN Ret(m, "**Schedule Notification:** Please specify message and time")
    ELSE IF ~entities.groups[1].m \/ ~entities.groups[2].m THEN Raise(m, NoneStrip)
    ELSE ScheduleAt(m, Strip(entities.groups[1].s), Strip(entities.groups[2].s), entities,
                    now, _parse_time_specification(Strip(entities.groups[2].s), now, built_at))

_toggle_do_not_disturb(m, original_text) ==
    IF AnyIn(<< "enable", "turn on", "activate", "on", "silence" >>, Lower(original_text))
    THEN Ret([m EXCEPT !.do_not_disturb = TRUE], "**Do Not Disturb enabled**")
    ELSE IF AnyIn(<< "disable", "turn off", "deactivate", "off" >>, Lower(original_text))
    THEN Ret([m EXCEPT !.do_not_disturb = FALSE], "**Do Not Disturb disabled**")
    ELSE IF ~m.do_not_disturb
    THEN Ret([m EXCEPT !.do_not_disturb = TRUE], "**Do Not Disturb enabled**")
    ELSE Ret([m EXCEPT !.do_not_disturb = FALSE], "**Do Not Disturb disabled**")

_summarize_notifications(m) ==
    IF m.notifications = << >> THEN Ret(m, "**Notification Summary:** No active notifications")
    ELSE Ret(m, "**Intelligent Notification Summary**")

_show_notification_settings(m) == Ret(m, "**Notification Settings:**")

\* the class defines no _set_notification_priority
NoSetPriority ==
    "'IntelligentNotificationSystem' object has no attribute '_set_notification_priority'"

_execute_notification_intent(m, intent, entities, original_text, now, built_at) ==
    Caught(CASE intent = "show_notification" ->
                    _create_notification(m, entities, now, TimeOfDay(now, built_at))
             [] intent = "dismiss_notification" -> _dismiss_notification(m, entities)
             [] intent = "list_notifications" -> _list_notifications(m)
             [] intent = "set_priority" -> Raise(m, NoSetPriority)
             [] intent = "do_not_disturb" -> _toggle_do_not_disturb(m, original_text)
             [] intent = "schedule_notification" ->
                    _schedule_notification(m, entities, now, built_at)
             [] intent = "notification_settings" -> _show_notification_settings(m)
             [] intent = "summarize_notifications" -> _summarize_notifications(m)
             [] OTHER -> Ret(m, "**Intent recognized** (" \o intent
                                   \o ") but implementation pending"),
           "**Notification system error:** ")

ns__handle_unknown_intent(m, user_input) ==
    Ret(m, "**I didn't understand:** \"" \o user_input \o "\"")

\* e: the intent and entities of the preprocessed input
ns_process_command(m, user_input, e, now, built_at) ==
    IF e.intent = NoIntent THEN ns__handle_unknown_intent(m, user_input)
    ELSE _execute_notification_intent([m EXCEPT !.command_history = @ + 1],
                                      e.intent, e, user_input, now, built_at)

Expired(notification, now) ==
    \/ notification.expires_at # 0 /\ now > notification.expires_at
    \/ notification.auto_dismiss /\ now - notification.timestamp > AutoDismissAfter

RECURSIVE ExpiredIds(_, _)
ExpiredIds(d, now) ==
    IF d = << >> THEN << >>
    ELSE IF Expired(Head(d).v, now) THEN << Head(d).k >> \o ExpiredIds(Tail(d), now)
    ELSE ExpiredIds(Tail(d), now)

_cleanup_expired_notifications(m, now) == DismissAll(m, ExpiredIds(m.notifications, now))

\* one turn of the loop of _process_notifications: the head of the queue
\* is rendered, the expired notifications are dismissed
Unqueued(m) ==
    IF m.notification_queue = << >> THEN m
    ELSE [m EXCEPT !.notification_queue = Tail(@)]

(***************************************************************************)
(* The notification system as a state machine.  ns is the system; ns_env   *)
(* is the world: the clock, the time of the day at which the system was    *)
(* built, what notify-send has put on the screen, and the notifications    *)
(* whose creation was answered with "Notification queued".                 *)
(***************************************************************************)
VARIABLES ns, ns_env, ns_input, ns_result, ns_op

nsVars == << ns, ns_env, ns_input, ns_result, ns_op >>

MaxNotificationCommands == 3

NsCommands ==
    { "enable do not disturb", "turn on dnd", "disable do not disturb", "deactivate dnd",
      "turn off quiet mode", "notify me about lunch", "notify me about urgent call",
      "alert me about minor thing", "dismiss notification", "dismiss notification about l",
      "list notifications", "notification settings", "summarize notifications",
      "set priority of lunch to high", "schedule a reminder for tea in 5 minutes",
      "schedule a reminder for tea at in 1 minute", "hello" }

\* the intent and the entities of each command, computed once
ns_entities ==
    [ c \in NsCommands |-> ns__extract_intent_and_entities(ns__preprocess_text(c)) ]

\* the patterns of the do_not_disturb intent: the enable phrasing is the
\* first of them, the disable phrasing the second
do_not_disturb_patterns ==
    (CHOOSE e \in { ns_intent_patterns[i] : i \in 1..Len(ns_intent_patterns) } :
        e.intent = "do_not_disturb").patterns

\* for each command, whether re.search finds the enable phrasing and the
\* disable phrasing in its preprocessed text, computed once
ns_phrasing ==
    [ c \in NsCommands |->
        [ enable |-> ReSearch(do_not_disturb_patterns[1], ns__preprocess_text(c), TRUE).found,
          disable |-> ReSearch(do_not_disturb_patterns[2], ns__preprocess_text(c), TRUE).found ] ]

\* the message the command asks to show, for the commands that ask
ns_messages ==
    [ c \in NsCommands |->
        IF ns_entities[c].intent = "show_notification" /\ ~NoFirstGroup(ns_entities[c].groups)
        THEN Strip(ns_entities[c].groups[1].s) ELSE "" ]

\* the system is built at noon, or an hour before midnight
NsBuiltAt == { 12 * Hour, 23 * Hour }

\* the clock times looked at: the start, a millisecond later, and a time
\* by which an auto_dismiss notification of the start has expired
NsClock == { 0, 1, AutoDismissAfter + 1 }

NsIdle ==
    /\ ns = ns___init__
    /\ ns_env = [now |-> 0, built_at |-> 12 * Hour, shown |-> << >>, promised |-> {}]
    /\ ns_input = ""
    /\ ns_result = ""
    /\ ns_op = "init"

NsInit ==
    /\ ns = ns___init__
    /\ ns_env \in { [now |-> 0, built_at |-> b, shown |-> << >>, promised |-> {}] :
                      b \in NsBuiltAt }
    /\ ns_input = ""
    /\ ns_result = ""
    /\ ns_op = "init"

\* r: the outcome of process_command
NsAnswered(user_input, r) ==
    /\ ns' = r.m
    /\ ns_result' = r.out
    /\ ns_env' = IF r.out = NotificationQueued
                 THEN [ns_env EXCEPT !.promised =
                          @ \cup { CreatedNotification(ns_messages[user_input],
                                                       ns_entities[user_input],
                                                       ns_env.now) }]
                 ELSE ns_env

NsProcessCommand(user_input) ==
    /\ ns.command_history < MaxNotificationCommands
    /\ ns_input' = user_input
    /\ ns_op' = "command"
    /\ NsAnswered(user_input,
                  ns_process_command(ns, user_input, ns_entities[user_input],
                                     ns_env.now, ns_env.built_at))

\* the processor thread, once a second; notify-send works or does not
NsProcess(notify_send) ==
    /\ ns' = _cleanup_expired_notifications(Unqueued(ns), ns_env.now)
    /\ ns_env' = IF ns.notification_queue # << >> /\ notify_send
                 THEN [ns_env EXCEPT !.shown = Append(@, Head(ns.notification_queue))]
                 ELSE ns_env
    /\ ns_op' = "process"
    /\ UNCHANGED << ns_input, ns_result >>

\* deliver, in the thread of a scheduled notification that has slept
NsDeliver(s) ==
    /\ s \in ns.scheduled
    /\ ns_env.now >= s.at
    /\ ns' = IF _should_show_notification(ns, s.n, TimeOfDay(ns_env.now, ns_env.built_at))
             THEN [Delivered(ns, s.n) EXCEPT !.scheduled = @ \ {s}]
             ELSE [ns EXCEPT !.scheduled = @ \ {s}]
    /\ ns_op' = "deliver"
    /\ UNCHANGED << ns_env, ns_input, ns_result >>

\* time passes
NsTick(t) ==
    /\ t > ns_env.now
    /\ ns_env' = [ns_env EXCEPT !.now = t]
    /\ UNCHANGED << ns, ns_input, ns_result, ns_op >>

(***************************************************************************)
(* Claims about the notification system.                                   *)
(***************************************************************************)
\* the notification has reached the queue, the dict, the screen or, once
\* dismissed, the history
WasDelivered(n) ==
    \/ \E i \in 1..Len(ns.notification_queue) : ns.notification_queue[i] = n
    \/ \E i \in 1..Len(ns.notifications) : ns.notifications[i].v = n
    \/ \E i \in 1..Len(ns.notification_history) : ns.notification_history[i] = n
    \/ \E i \in 1..Len(ns_env.shown) : ns_env.shown[i] = n

\* Do Not Disturb has just been disabled while notifications answered with
\* "Notification queued" are outstanding
DisabledWithQueued ==
    /\ ns_op = "command"
    /\ ns_result = "**Do Not Disturb disabled**"
    /\ ~ns.do_not_disturb
    /\ ns_env.promised # {}

\* C18: the notifications answered with "Notification queued (Do Not
\* Disturb is active) ... Will be delivered when appropriate" are, once Do
\* Not Disturb is disabled, eventually delivered, unless Do Not Disturb is
\* turned on again first.
C18_QueuedNotificationDelivered ==
    DisabledWithQueued
        ~> \/ \A n \in ns_env.promised : WasDelivered(n)
           \/ ns.do_not_disturb

\* the command c has just been processed
NsProcessed(c) == ns_op' = "command" /\ ns_input' = c /\ ns'.command_history = ns.command_history + 1

\* C22: every command that matches the disable phrasing of the do-not-disturb
\* intent leaves do_not_disturb False, and every command that matches the
\* enable phrasing (and not the disable phrasing) leaves it True, whatever
\* the value was before
C22_DoNotDisturbFollowsThePhrasing ==
    [][ \A c \in NsCommands :
          NsProcessed(c)
             => /\ ns_phrasing[c].disable => ~ns'.do_not_disturb
                /\ (ns_phrasing[c].enable /\ ~ns_phrasing[c].disable) => ns'.do_not_disturb
      ]_nsVars

(***************************************************************************)
(* ai_shell.py: MinimalAIShell, the chat and the streaming of AI responses. *)
(* A response is streamed by a thread of its own, which hands each display  *)
(* update to the UI thread with GLib.idle_add; the UI thread runs the       *)
(* callbacks one at a time, in the order they were added.                   *)
(***************************************************************************)
\* create_message_widget: a new widget, told from every other by its id
create_message_widget(m, sender, message) ==
    [ id |-> m.widgets + 1, sender |-> sender, message |-> message ]

\* chat_box.append(widget) of a widget just created
ChatAppended(m, widget) ==
    [m EXCEPT !.chat = Append(@, widget), !.widgets = widget.id]

add_user_message(m, message) == ChatAppended(m, create_message_widget(m, "You", message))

add_ai_message(m, message) == ChatAppended(m, create_message_widget(m, "PersonalAI", message))

\* the attribute current_streaming_widget is absent
NoWidget == 0

\* chat_box.remove(widget): the chat without the widget of this id
RECURSIVE ChatRemoved(_, _)
ChatRemoved(chat, id) ==
    IF chat = << >> THEN << >>
    ELSE IF Head(chat).id = id THEN ChatRemoved(Tail(chat), id)
    ELSE << Head(chat) >> \o ChatRemoved(Tail(chat), id)

\* removed: the shell after the first statement of update_streaming_display
StreamingShown(removed, clean_response) ==
    IF clean_response # ""
    THEN [ChatAppended(removed, create_message_widget(removed, "PersonalAI", clean_response))
            EXCEPT !.current_streaming_widget = removed.widgets + 1]
    ELSE removed

update_streaming_display(m, partial_response) ==
    StreamingShown(IF m.current_streaming_widget # NoWidget
                   THEN [m EXCEPT !.chat = ChatRemoved(@, m.current_streaming_widget)]
                   ELSE m,
                   Strip(partial_response))

finalize_streaming(m) == [m EXCEPT !.current_streaming_widget = NoWidget]

\* a callback handed to GLib.idle_add
Callback(f, arg) == [ f |-> f, arg |-> arg ]

\* the UI thread runs one callback
RunCallback(m, cb) ==
    CASE cb.f = "update_streaming_display" -> update_streaming_display(m, cb.arg)
      [] cb.f = "finalize_streaming" -> finalize_streaming(m)
      [] cb.f = "add_ai_message" -> add_ai_message(m, cb.arg)

NotReady == "**AI Engine not ready.** Please wait for initialization."

ResponseError == "**Response Error:** Response failed"

\* the answer of a component the desktop manager routed the utterance to
RoutedResponse == "**Component response**"

\* MinimalAIShell(): an empty chat, no streaming widget, the desktop manager
\* connected or, when its import fails, not
ShellBuilt(connected) ==
    [ chat |-> << >>, widgets |-> 0, current_streaming_widget |-> NoWidget,
      desktop_manager |-> connected, sends |-> 0 ]

\* the thread of get_streaming_response: the content of the chunks the server
\* will send, the chunk it waits for, and what it has accumulated
StreamingThread(response) ==
    [ response |-> response, at |-> 1, accumulated_response |-> "", pc |-> "streaming" ]

VARIABLES sh, sh_idle, sh_threads, sh_input, sh_op

shVars == << sh, sh_idle, sh_threads, sh_input, sh_op >>

\* the largest number of utterances sent
MaxSends == 2

\* what the entry holds when the user sends
ShUtterances == { "", "hello", "open code", "system info" }

\* the content of the chunks of a response of the AI server; a chunk may have
\* no content
Responses == { << "a", "b" >>, << "x", "", "y" >> }

\* the keyword tests of the desktop manager, computed once for each utterance
sh_keywords ==
    [ c \in ShUtterances |->
        [ routed |-> \/ is_launcher_command(Lower(Strip(c)))
                     \/ is_file_command(Lower(Strip(c)))
                     \/ is_window_command(Lower(Strip(c))),
          system |-> is_system_command(Lower(Strip(c))) ] ]

ShIdle ==
    /\ sh = ShellBuilt(TRUE)
    /\ sh_idle = << >>
    /\ sh_threads = << >>
    /\ sh_input = ""
    /\ sh_op = "init"

ShInit ==
    /\ sh \in { ShellBuilt(connected) : connected \in BOOLEAN }
    /\ sh_idle = << >>
    /\ sh_threads = << >>
    /\ sh_input = ""
    /\ sh_op = "init"

\* on_send with a non-empty utterance; handled: what the desktop manager
\* returned, ready: whether the AI server answers, response: what it will
\* stream
ShSent(text, handled, ready, response) ==
    /\ sh_input' = text
    /\ sh_op' = "send"
    /\ IF handled
       THEN /\ sh' = [add_user_message(sh, text) EXCEPT !.sends = @ + 1]
            /\ sh_idle' = Append(sh_idle, Callback("add_ai_message", RoutedResponse))
            /\ UNCHANGED sh_threads
       ELSE IF ready
       THEN /\ sh' = [add_user_message(sh, text) EXCEPT !.sends = @ + 1]
            /\ sh_threads' = Append(sh_threads, StreamingThread(response))
            /\ UNCHANGED sh_idle
       ELSE /\ sh' = [add_ai_message(add_user_message(sh, text), NotReady) EXCEPT !.sends = @ + 1]
            /\ UNCHANGED << sh_idle, sh_threads >>

\* MinimalAIShell.on_send: the entry holds typed
ShOnSend(typed, handled, ready, response) ==
    /\ sh.sends < MaxSends
    /\ handled => sh.desktop_manager /\ (sh_keywords[typed].routed \/ sh_keywords[typed].system)
    /\ sh.desktop_manager /\ sh_keywords[typed].system => handled
    /\ (handled \/ ~ready) => response = << "a", "b" >>
    /\ handled => ready
    /\ IF Strip(typed) = ""
       THEN /\ ~handled /\ ready
            /\ sh_input' = ""
            /\ sh_op' = "ignored"
            /\ UNCHANGED << sh, sh_idle, sh_threads >>
       ELSE ShSent(Strip(typed), handled, ready, response)

\* get_streaming_response, one line of the stream: a chunk with content is
\* accumulated and the display update handed to the UI thread
ShChunk(t) ==
    /\ t \in 1..Len(sh_threads)
    /\ sh_threads[t].pc = "streaming"
    /\ sh_threads[t].at <= Len(sh_threads[t].response)
    /\ \E content \in { sh_threads[t].response[sh_threads[t].at] } :
        IF content # ""
        THEN /\ sh_threads' = [sh_threads EXCEPT ![t].accumulated_response = @ \o content,
                                                 ![t].at = @ + 1]
             /\ sh_idle' = Append(sh_idle,
                                  Callback("update_streaming_display",
                                           sh_threads[t].accumulated_response \o content))
        ELSE /\ sh_threads' = [sh_threads EXCEPT ![t].at = @ + 1]
             /\ UNCHANGED sh_idle
    /\ sh_op' = "chunk"
    /\ UNCHANGED << sh, sh_input >>

\* get_streaming_response, the end of the stream: finalize_streaming is
\* handed to the UI thread
ShDone(t) ==
    /\ t \in 1..Len(sh_threads)
    /\ sh_threads[t].pc = "streaming"
    /\ sh_threads[t].at > Len(sh_threads[t].response)
    /\ sh_threads' = [sh_threads EXCEPT ![t].pc = "done"]
    /\ sh_idle' = Append(sh_idle, Callback("finalize_streaming", ""))
    /\ sh_op' = "done"
    /\ UNCHANGED << sh, sh_input >>

\* get_streaming_response, the request or the stream raises: the error is
\* handed to the UI thread as a message, and finalize_streaming is not
ShFail(t) ==
    /\ t \in 1..Len(sh_threads)
    /\ sh_threads[t].pc = "streaming"
    /\ sh_threads' = [sh_threads EXCEPT ![t].pc = "failed"]
    /\ sh_idle' = Append(sh_idle, Callback("add_ai_message", ResponseError))
    /\ sh_op' = "failed"
    /\ UNCHANGED << sh, sh_input >>

\* the UI thread runs the callback added first
ShRunIdle ==
    /\ sh_idle # << >>
    /\ sh' = RunCallback(sh, Head(sh_idle))
    /\ sh_idle' = Tail(sh_idle)
    /\ sh_op' = "idle"
    /\ UNCHANGED << sh_threads, sh_input >>

(***************************************************************************)
(* Claims about the shell.                                                 *)
(***************************************************************************)
\* the complete text of the response the thread streams
RECURSIVE Concatenated(_)
Concatenated(chunks) ==
    IF chunks = << >> THEN "" ELSE Head(chunks) \o Concatenated(Tail(chunks))

\* the number of AI messages of the chat that hold the text
ShownTimes(text) ==
    Cardinality({ i \in 1..Len(sh.chat) :
                    sh.chat[i].sender = "PersonalAI" /\ sh.chat[i].message = text })

\* the number of streamed responses whose complete text is the text
StreamedTimes(text) ==
    Cardinality({ t \in 1..Len(sh_threads) : Strip(Concatenated(sh_threads[t].response)) = text })

\* two responses have been streamed to their end and the UI thread has run
\* every callback
BothFinished ==
    /\ Len(sh_threads) = 2
    /\ \A t \in 1..Len(sh_threads) : sh_threads[t].pc = "done"
    /\ sh_idle = << >>

\* C21: when two AI responses are streamed concurrently, after both have
\* finished the chat contains the complete text of each response exactly
\* once, whatever the order in which the UI thread ran their display updates
\* and finalizations
C21_BothResponsesInChat ==
    BothFinished
        => \A t \in 1..Len(sh_threads) :
             ShownTimes(Strip(Concatenated(sh_threads[t].response)))
                = StreamedTimes(Strip(Concatenated(sh_threads[t].response)))

(***************************************************************************)
(* The desktop: the components side by side.  Each is a process of its own *)
(* over files of its own, so a step of one leaves the others as they are.  *)
(* A specification per component lets that component take its steps next  *)
(* to the others as constructed; Spec lets all of them.                    *)
(***************************************************************************)
vars == << wsVars, stVars, alVars, fmVars, wmVars, mtVars, dmVars, lnVars, smVars, nsVars, shVars >>

WsNext ==
    \/ /\ \E c \in WsCommands, o \in WmctrlOutcomes : WsProcessCommand(c, o)
       /\ UNCHANGED << stVars, alVars, fmVars, wmVars, mtVars, dmVars, lnVars, smVars, nsVars, shVars >>
    \/ WsRestart /\ UNCHANGED << stVars, alVars, fmVars, wmVars, mtVars, dmVars, lnVars, smVars, nsVars, shVars >>
    \/ WsFileLost /\ UNCHANGED << stVars, alVars, fmVars, wmVars, mtVars, dmVars, lnVars, smVars, nsVars, shVars >>
    \/ WsFileGarbled /\ UNCHANGED << stVars, alVars, fmVars, wmVars, mtVars, dmVars, lnVars, smVars, nsVars, shVars >>
    \/ WsFileDamaged /\ UNCHANGED << stVars, alVars, fmVars, wmVars, mtVars, dmVars, lnVars, smVars, nsVars, shVars >>

StNext ==
    \/ /\ \E c \in StCommands, e \in BOOLEAN : StProcessCommand(c, e)
       /\ UNCHANGED << wsVars, alVars, fmVars, wmVars, mtVars, dmVars, lnVars, smVars, nsVars, shVars >>
    \/ StRestart /\ UNCHANGED << wsVars, alVars, fmVars, wmVars, mtVars, dmVars, lnVars, smVars, nsVars, shVars >>
    \/ StFileLost /\ UNCHANGED << wsVars, alVars, fmVars, wmVars, mtVars, dmVars, lnVars, smVars, nsVars, shVars >>
    \/ StFileGarbled /\ UNCHANGED << wsVars, alVars, fmVars, wmVars, mtVars, dmVars, lnVars, smVars, nsVars, shVars >>

AlNext ==
    \/ /\ \E c \in AlCommands, w \in SUBSET {"gtk-launch", "direct_execution"} :
             AlProcessCommand(c, w)
       /\ UNCHANGED << wsVars, stVars, fmVars, wmVars, mtVars, dmVars, lnVars, smVars, nsVars, shVars >>
    \/ AlRestart /\ UNCHANGED << wsVars, stVars, fmVars, wmVars, mtVars, dmVars, lnVars, smVars, nsVars, shVars >>

FmNext ==
    \/ /\ \E c \in FmCommands, os_ok \in BOOLEAN : FmProcessCommand(c, os_ok)
       /\ UNCHANGED << wsVars, stVars, alVars, wmVars, mtVars, dmVars, lnVars, smVars, nsVars, shVars >>
    \/ FmRestart /\ UNCHANGED << wsVars, stVars, alVars, wmVars, mtVars, dmVars, lnVars, smVars, nsVars, shVars >>

WmNext ==
    \/ /\ \E c \in WmCommands, wmctrl \in ToolOutcomes, xdotool \in ToolOutcomes :
             WmProcessCommand(c, wmctrl, xdotool)
       /\ UNCHANGED << wsVars, stVars, alVars, fmVars, mtVars, dmVars, lnVars, smVars, nsVars, shVars >>
    \/ WmRestart /\ UNCHANGED << wsVars, stVars, alVars, fmVars, mtVars, dmVars, lnVars, smVars, nsVars, shVars >>

MtNext ==
    \/ /\ \E k \in MtComponents : \E text \in MtTexts[k] : MtExtractIntent(k, text)
       /\ UNCHANGED << wsVars, stVars, alVars, fmVars, wmVars, dmVars, lnVars, smVars, nsVars, shVars >>

DmNext ==
    \/ /\ \E typed \in DmCommands, working \in SUBSET {"gtk-launch", "direct_execution"},
             os_ok \in BOOLEAN, wmctrl \in ToolOutcomes, xdotool \in ToolOutcomes,
             ready \in BOOLEAN :
             OnSend(typed, working, os_ok, wmctrl, xdotool, ready)
       /\ UNCHANGED << wsVars, stVars, mtVars, lnVars, smVars, nsVars, shVars >>

LnNext ==
    \/ /\ \E m \in LnLaunchers : \E i \in 1..Len(m.applications) :
             \E working \in SUBSET { m.launch_methods[k] : k \in 1..Len(m.launch_methods) } :
             LnLaunchApplication(m, i, working)
       /\ UNCHANGED << wsVars, stVars, alVars, fmVars, wmVars, mtVars, dmVars, smVars, nsVars, shVars >>

SmNext ==
    \/ SmStartSession /\ UNCHANGED << wsVars, stVars, alVars, fmVars, wmVars, mtVars, dmVars, lnVars, nsVars, shVars >>
    \/ /\ \E c \in SmCommands : SmProcessCommand(c)
       /\ UNCHANGED << wsVars, stVars, alVars, fmVars, wmVars, mtVars, dmVars, lnVars, nsVars, shVars >>
    \/ SmSignal /\ UNCHANGED << wsVars, stVars, alVars, fmVars, wmVars, mtVars, dmVars, lnVars, nsVars, shVars >>
    \/ SmLogoutStep /\ UNCHANGED << wsVars, stVars, alVars, fmVars, wmVars, mtVars, dmVars, lnVars, nsVars, shVars >>
    \/ SmMonitorStep /\ UNCHANGED << wsVars, stVars, alVars, fmVars, wmVars, mtVars, dmVars, lnVars, nsVars, shVars >>
    \/ /\ \E k \in SmMortal : SmDie(k)
       /\ UNCHANGED << wsVars, stVars, alVars, fmVars, wmVars, mtVars, dmVars, lnVars, nsVars, shVars >>
    \/ SmExit /\ UNCHANGED << wsVars, stVars, alVars, fmVars, wmVars, mtVars, dmVars, lnVars, nsVars, shVars >>

NsNext ==
    \/ /\ \E c \in NsCommands : NsProcessCommand(c)
       /\ UNCHANGED << wsVars, stVars, alVars, fmVars, wmVars, mtVars, dmVars, lnVars, smVars, shVars >>
    \/ /\ \E ok \in BOOLEAN : NsProcess(ok)
       /\ UNCHANGED << wsVars, stVars, alVars, fmVars, wmVars, mtVars, dmVars, lnVars, smVars, shVars >>
    \/ /\ \E s \in ns.scheduled : NsDeliver(s)
       /\ UNCHANGED << wsVars, stVars, alVars, fmVars, wmVars, mtVars, dmVars, lnVars, smVars, shVars >>
    \/ /\ \E t \in NsClock : NsTick(t)
       /\ UNCHANGED << wsVars, stVars, alVars, fmVars, wmVars, mtVars, dmVars, lnVars, smVars, shVars >>

ShNext ==
    \/ /\ \E typed \in ShUtterances, handled \in BOOLEAN, ready \in BOOLEAN, response \in Responses :
             ShOnSend(typed, handled, ready, response)
       /\ UNCHANGED << wsVars, stVars, alVars, fmVars, wmVars, mtVars, dmVars, lnVars, smVars, nsVars >>
    \/ /\ \E t \in 1..Len(sh_threads) : ShChunk(t)
       /\ UNCHANGED << wsVars, stVars, alVars, fmVars, wmVars, mtVars, dmVars, lnVars, smVars, nsVars >>
    \/ /\ \E t \in 1..Len(sh_threads) : ShDone(t)
       /\ UNCHANGED << wsVars, stVars, alVars, fmVars, wmVars, mtVars, dmVars, lnVars, smVars, nsVars >>
    \/ /\ \E t \in 1..Len(sh_threads) : ShFail(t)
       /\ UNCHANGED << wsVars, stVars, alVars, fmVars, wmVars, mtVars, dmVars, lnVars, smVars, nsVars >>
    \/ ShRunIdle /\ UNCHANGED << wsVars, stVars, alVars, fmVars, wmVars, mtVars, dmVars, lnVars, smVars, nsVars >>

\* the workspace manager at work
InitWs == WsInit /\ StInit /\ AlIdle /\ FmIdle /\ WmIdle /\ MtIdle /\ DmIdle /\ LnIdle /\ SmIdle /\ NsIdle /\ ShIdle

SpecWs == InitWs /\ [][WsNext]_vars

\* the settings manager at work
InitSet == StInit /\ WsInit /\ AlIdle /\ FmIdle /\ WmIdle /\ MtIdle /\ DmIdle /\ LnIdle /\ SmIdle /\ NsIdle /\ ShIdle

SpecSet == InitSet /\ [][StNext]_vars

\* the application launcher at work
InitAl == AlInit /\ WsInit /\ StInit /\ FmIdle /\ WmIdle /\ MtIdle /\ DmIdle /\ LnIdle /\ SmIdle /\ NsIdle /\ ShIdle

SpecAl == InitAl /\ [][AlNext]_vars

\* the file manager at work
InitFm == FmInit /\ WsInit /\ StInit /\ AlIdle /\ WmIdle /\ MtIdle /\ DmIdle /\ LnIdle /\ SmIdle /\ NsIdle /\ ShIdle

SpecFm == InitFm /\ [][FmNext]_vars

\* the window manager at work
InitWm == WmInit /\ WsInit /\ StInit /\ AlIdle /\ FmIdle /\ MtIdle /\ DmIdle /\ LnIdle /\ SmIdle /\ NsIdle /\ ShIdle

SpecWm == InitWm /\ [][WmNext]_vars

\* the intent matchers at work
InitMatch == MtIdle /\ WsInit /\ StInit /\ AlIdle /\ FmIdle /\ WmIdle /\ DmIdle /\ LnIdle /\ SmIdle /\ NsIdle /\ ShIdle

SpecMatch == InitMatch /\ [][MtNext]_vars

\* the command router at work
InitRouter == DmInit /\ WsInit /\ StInit /\ AlInit /\ FmInit /\ WmInit /\ MtIdle /\ LnIdle /\ SmIdle /\ NsIdle /\ ShIdle /\ DmMachine

SpecRouter == InitRouter /\ [][DmNext]_vars

\* the launch loop at work
InitLaunch == LnIdle /\ WsInit /\ StInit /\ AlIdle /\ FmIdle /\ WmIdle /\ MtIdle /\ DmIdle /\ SmIdle /\ NsIdle /\ ShIdle

SpecLaunch == InitLaunch /\ [][LnNext]_vars

\* the session manager at work
InitSession == SmInit /\ WsInit /\ StInit /\ AlIdle /\ FmIdle /\ WmIdle /\ MtIdle /\ DmIdle /\ LnIdle /\ NsIdle /\ ShIdle

SpecSession == InitSession /\ [][SmNext]_vars

\* the monitor is a thread of its own, which the scheduler keeps running
SmMonitorAlone == SmMonitorStep /\ UNCHANGED << wsVars, stVars, alVars, fmVars, wmVars, mtVars, dmVars, lnVars, nsVars, shVars >>

SpecSessionFair == SpecSession /\ WF_vars(SmMonitorAlone)

\* the notification system at work
InitNotify == NsInit /\ WsInit /\ StInit /\ AlIdle /\ FmIdle /\ WmIdle /\ MtIdle /\ DmIdle /\ LnIdle /\ SmIdle /\ ShIdle

SpecNotify == InitNotify /\ [][NsNext]_vars

\* the processor and the delivery threads are threads of their own, which
\* the scheduler keeps running
NsThreadsAlone ==
    /\ \/ \E ok \in BOOLEAN : NsProcess(ok)
       \/ \E s \in ns.scheduled : NsDeliver(s)
    /\ UNCHANGED << wsVars, stVars, alVars, fmVars, wmVars, mtVars, dmVars, lnVars, smVars, shVars >>

SpecNotifyFair == SpecNotify /\ WF_vars(NsThreadsAlone)

\* the shell at work
InitShell == ShInit /\ WsInit /\ StInit /\ AlIdle /\ FmIdle /\ WmIdle /\ MtIdle /\ DmIdle /\ LnIdle /\ SmIdle /\ NsIdle

SpecShell == InitShell /\ [][ShNext]_vars

Init == WsInit /\ StInit /\ AlInit /\ FmInit /\ WmInit /\ MtIdle /\ DmInit /\ LnIdle /\ SmInit /\ NsInit /\ ShInit

Next == WsNext \/ StNext \/ AlNext \/ FmNext \/ WmNext \/ MtNext \/ DmNext \/ LnNext \/ SmNext \/ NsNext \/ ShNext

Spec == Init /\ [][Next]_vars

====
